---- MODULE Spec2Model ----
(***************************************************************************)
(* Booking / slot concurrency and case lifecycle of entaneer-mind-be.      *)
(*                                                                         *)
(* The persisted tables (Session, Case, SessionHistory, RegistrationCode)  *)
(* are the shared state.  Every HTTP request is a process that walks       *)
(* through the awaited database round trips of its handler; one action is  *)
(* one round trip (or one interactive transaction whose first write takes  *)
(* the row lock it keeps until commit).  Reads see committed rows only     *)
(* (PostgreSQL READ COMMITTED, the Prisma default).                        *)
(***************************************************************************)
EXTENDS Integers, Sequences, FiniteSets, TLC

\* ------------------------------------------------------------------ bounds
NumClients == 2
NumSessions == 2
NumCodes == 2
MaxCases == 3
MaxHistory == 3
MaxReqs == 2
MaxMinute == 2
MaxDay == 1
\* request slots: the requests that overlap in time, in a workload of
\* pairwise races and in one of three-way races
RaceWidth == 2
NumProcs == 3
\* the slots created on top of the seeded ones
MaxNewSlots == 2
MaxQuarters == 12

\* ------------------------------------------------------- program constants
\* caseId: null, queueToken: null, sessionToken: null
NoCase == 0
NoToken == 0
NoCounselor == 0
NoTime == -1
\* roomId: null
NoRoom == 0
BangkokOffsetHours == 7
\* bookingController: hoursUntilSession < 24, in minutes (ms / (1000*60*60))
LeadHours == 24
MinutesPerHour == 60
HoursPerDay == 24
\* isValidSessionTime: hours >= 9 && hours <= 15
FirstHour == 9
LastHour == 15
\* caseController: now.getFullYear() + 543, now.getMonth() < 5
BuddhistOffset == 543
JuneIndex == 5
\* the year of the spec's scenario (May 31 / June 1 2026)
Year == 2026
\* padStart(4, '0') / padStart(3, "0"): a token is prefix * 10^4 + sequence
SeqWidth == 10000
VisitWidth == 1000

Procs == 1..NumProcs
Racers == 1..RaceWidth
Pair == {1, 2}
Clients == 1..NumClients
Sessions == 1..NumSessions
Codes == 1..NumCodes
Counselors == {1}
\* the counselors that send requests; sessions and cases belong to the first
Actors == {1, 2}
\* the texts a counselor writes into counselorNote
Notes == {1, 2}
\* the reason a status change carries: none, or a text
Reasons == {0, 1}
\* ['confirmed', 'rescheduled', 'cancelled']
TargetStatuses == {"confirmed", "rescheduled", "cancelled"}
Months == {JuneIndex - 1, JuneIndex}
Rooms == {1}
\* the { date, time } a booking without sessionId names: tomorrow or the day
\* after, at the first slot's hour, the next, or an hour no clock shows
BookDays == {1, 2}
BookHours == {FirstHour, FirstHour + 1, HoursPerDay}

VARIABLES
  sessions,   \* Session table: sessionId -> row
  sessionSeq, \* Session table: the last sessionId handed out (SERIAL)
  cases,      \* Case table: sequence of rows, caseId = index (SERIAL)
  history,    \* SessionHistory table: sequence of rows in insertion order
  codes,      \* RegistrationCode table: code -> isUsed
  now,        \* wall clock, minutes
  month,      \* calendar month index of the wall clock (Date.getMonth())
  pc,         \* per request slot: position in the handler
  req,        \* per request slot: the request (handler, identity, body)
  loc,        \* per request slot: the handler's local variables
  resp,       \* per request slot: the response sent
  reqNo       \* per request slot: how many requests it has carried

vars == <<sessions, sessionSeq, cases, history, codes, now, month, pc, req, loc, resp, reqNo>>
db == <<sessions, sessionSeq, cases, history, codes>>
clock == <<now, month>>

\* ------------------------------------------------------------------ tables
LeadMinutes == LeadHours * MinutesPerHour
SlotStart(s) == LeadMinutes + (s - 1)
\* minute 0 of the wall clock is 00:00 UTC; the first slot of the next day
DayMinutes == HoursPerDay * MinutesPerHour
FirstSlot == DayMinutes + (FirstHour * MinutesPerHour)
\* the start times a slot request names: two slots an hour apart, and a
\* time off the hour
SlotTimes == {FirstSlot, FirstSlot + 1, FirstSlot + MinutesPerHour}
\* the { date, time } a toggle names: the seeded slots, and a free one
ToggleTimes == {SlotStart(s) : s \in Sessions} \cup {FirstSlot}

SessionRow(s) ==
  [status |-> "available", caseId |-> NoCase, timeStart |-> SlotStart(s),
   timeEnd |-> SlotStart(s) + MinutesPerHour, roomId |-> 1,
   counselorId |-> 1, sessionToken |-> NoToken, note |-> 0]

\* the row session.create writes for a one-hour slot
NewSlot(room, time, counselor) ==
  [status |-> "available", caseId |-> NoCase, timeStart |-> time,
   timeEnd |-> time + MinutesPerHour, roomId |-> room,
   counselorId |-> counselor, sessionToken |-> NoToken, note |-> 0]

CaseRow(client, status) ==
  [clientId |-> client, status |-> status, queueToken |-> NoToken,
   counselorId |-> NoCounselor, confirmedAt |-> NoTime]

\* case.create({ data: { clientId, counselorId: session.counselorId, status: 'booked' } })
BookedCase(client, counselor) ==
  [CaseRow(client, "booked") EXCEPT !.counselorId = counselor]

HistoryRow(s, action) == [sessionId |-> s, action |-> action, details |-> << >>]

\* a history row whose details the model keeps
AuditRow(s, action, details) == [HistoryRow(s, action) EXCEPT !.details = details]

CaseIds == 1..Len(cases)

NoLocals == [caseId |-> NoCase, token |-> NoToken, count |-> 0,
             pending |-> NoToken, lead |-> 0, status |-> "none", audits |-> 0,
             before |-> 0, linked |-> {}, released |-> {},
             counselor |-> NoCounselor, confirmedAt |-> NoTime, session |-> 0,
             targets |-> {}]

\* ---------------------------------------------------------------- requests
ClientSessionKinds ==
  {"bookSlot", "bookSession", "bookSlotV1", "cancelBooking", "cancelClientSession"}

\* req.body.status as typed: a string is the sequence of its characters
Uppers ==
  <<"A", "B", "C", "D", "E", "F", "G", "H", "I", "J", "K", "L", "M",
    "N", "O", "P", "Q", "R", "S", "T", "U", "V", "W", "X", "Y", "Z">>
Lowers ==
  <<"a", "b", "c", "d", "e", "f", "g", "h", "i", "j", "k", "l", "m",
    "n", "o", "p", "q", "r", "s", "t", "u", "v", "w", "x", "y", "z">>
Blanks == {" ", "tab"}
Spell(word) ==
  CASE word = "confirmed" -> <<"c", "o", "n", "f", "i", "r", "m", "e", "d">>
    [] word = "rescheduled" ->
         <<"r", "e", "s", "c", "h", "e", "d", "u", "l", "e", "d">>
    [] word = "cancelled" -> <<"c", "a", "n", "c", "e", "l", "l", "e", "d">>
    [] word = "postponed" -> <<"p", "o", "s", "t", "p", "o", "n", "e", "d">>
    [] word = "completed" -> <<"c", "o", "m", "p", "l", "e", "t", "e", "d">>
RawStatuses ==
  {Spell("confirmed"), Spell("rescheduled"),
   <<"C", "a", "n", "c", "e", "l", "l", "e", "d">>,
   <<" ", "P", "o", "s", "t", "p", "o", "n", "e", "d", "tab">>,
   Spell("completed"), <<" ">>}

\* String.prototype.trim and toLowerCase
RECURSIVE trimStart(_)
trimStart(str) ==
  IF str # << >> /\ Head(str) \in Blanks THEN trimStart(Tail(str)) ELSE str
RECURSIVE trimEnd(_)
trimEnd(str) ==
  IF str # << >> /\ str[Len(str)] \in Blanks
    THEN trimEnd(SubSeq(str, 1, Len(str) - 1)) ELSE str
trim(str) == trimEnd(trimStart(str))
lowerChar(ch) ==
  IF \E i \in DOMAIN Uppers : Uppers[i] = ch
    THEN Lowers[CHOOSE i \in DOMAIN Uppers : Uppers[i] = ch] ELSE ch
toLowerCase(str) == [i \in DOMAIN str |-> lowerChar(str[i])]

\* the status value a string is; every spelling the status column never
\* holds is "unlisted"
StatusWords == {"confirmed", "rescheduled", "cancelled", "postponed"}
Named(str) ==
  IF \E w \in StatusWords : Spell(w) = str
    THEN CHOOSE w \in StatusWords : Spell(w) = str ELSE "unlisted"
lowerOnly(raw) ==
  LET normalized == Named(toLowerCase(raw)) IN
  IF normalized = "postponed" THEN "rescheduled" ELSE normalized
normalizeStatus(raw) ==
  LET normalized == Named(toLowerCase(trim(raw))) IN
  IF normalized = "postponed" THEN "rescheduled" ELSE normalized

Request(k, c, s, code, mark) ==
  [kind |-> k, client |-> c, session |-> s, code |-> code, mark |-> mark,
   actor |-> 1, note |-> 0, caseId |-> NoCase, status |-> "none", reason |-> 0,
   room |-> NoRoom, time |-> NoTime,
   day |-> 0, hour |-> 0, minute |-> 0,
   counselorId |-> NoCounselor, counselorName |-> NoCounselor,
   rawStatus |-> << >>]

RequestsOf(k) ==
  IF k \in ClientSessionKinds
    THEN {Request(k, c, s, 0, FALSE) : c \in Clients, s \in Sessions}
  ELSE IF k = "verifyCodeAndCreateCase"
    THEN {Request(k, c, 0, code, FALSE) : c \in Clients, code \in Codes}
  ELSE IF k = "generateQueueToken"
    THEN {Request(k, c, 0, 0, FALSE) : c \in Clients}
  ELSE IF k = "updateCaseNote"
    THEN {Request(k, 0, s, 0, m) : s \in Sessions, m \in BOOLEAN}
  ELSE IF k = "updateAppointmentStatus"
    THEN {[Request(k, 0, 0, 0, FALSE) EXCEPT
             !.caseId = c, !.rawStatus = raw, !.actor = a, !.reason = r] :
            c \in 1..MaxCases, raw \in RawStatuses, a \in Actors, r \in Reasons}
  ELSE IF k = "editCaseNote"
    THEN {[Request(k, 0, s, 0, FALSE) EXCEPT !.actor = a, !.note = n] :
            s \in Sessions, a \in Actors, n \in Notes}
  ELSE IF k = "bookSlotByTime"
    THEN {[Request(k, c, 0, 0, FALSE) EXCEPT
             !.day = d, !.hour = h, !.minute = 0,
             !.counselorId = i, !.counselorName = n] :
            c \in Clients, d \in BookDays, h \in BookHours,
            i \in {NoCounselor} \cup Actors, n \in {NoCounselor} \cup Counselors}
  ELSE IF k = "cancelBookedSlot"
    THEN {[Request(k, 0, s, 0, FALSE) EXCEPT !.actor = a] :
            s \in Sessions, a \in Actors}
  ELSE IF k = "toggleSlot"
    THEN {[Request(k, 0, 0, 0, FALSE) EXCEPT !.room = r, !.time = t] :
            r \in Rooms, t \in ToggleTimes}
  ELSE IF k = "createSlot"
    THEN {[Request(k, 0, 0, 0, FALSE) EXCEPT !.actor = a, !.room = r, !.time = t] :
            a \in Actors, r \in Rooms, t \in SlotTimes}
  ELSE IF k = "updateSlot"
    THEN {[Request(k, 0, s, 0, FALSE) EXCEPT !.actor = a, !.time = t] :
            s \in Sessions, a \in Actors, t \in SlotTimes}
  ELSE IF k = "deleteSlot"
    THEN {[Request(k, 0, s, 0, FALSE) EXCEPT !.actor = a] :
            s \in Sessions, a \in Actors}
  ELSE IF k = "cleanupExpiredSessions"
    THEN {Request(k, 0, 0, 0, FALSE)}
  ELSE {Request(k, 0, s, 0, FALSE) : s \in Sessions}

Requests(K) == UNION {RequestsOf(k) : k \in K}

\* The first awaited round trip of each handler.
EntryOf(k) ==
  CASE k = "bookSlot" -> "bookSlot_find"
    [] k = "bookSlotByTime" -> "bookSlot_resolve"
    [] k = "bookSlotV1" -> "bookSlotV1_tx"
    [] k = "bookSession" -> "bookSession_findCase"
    [] k = "cancelBooking" -> "cancelBooking_find"
    [] k = "cancelClientSession" -> "cancelClientSession_find"
    [] k = "cancelBookedSlot" -> "cancelBookedSlot_find"
    [] k = "verifyCodeAndCreateCase" -> "verifyCodeAndCreateCase_find"
    [] k = "generateQueueToken" -> "generateQueueToken_findCase"
    [] k = "updateCaseNote" -> "updateCaseNote_find"
    [] k = "toggleSlot" -> "toggleSlot_find"
    [] k = "createSlot" -> "createSlot_overlap"
    [] k = "updateSlot" -> "updateSlot_find"
    [] k = "deleteSlot" -> "deleteSlot_find"
    [] k = "editCaseNote" -> "editCaseNote_txFind"
    [] k = "updateAppointmentStatus" -> "updateAppointmentStatus_validate"
    [] k = "cleanupExpiredSessions" -> "cleanupExpiredSessions_find"

AllKinds ==
  {"bookSlot", "bookSlotV1", "bookSession", "cancelBooking", "cancelClientSession",
   "cancelBookedSlot", "verifyCodeAndCreateCase", "generateQueueToken",
   "updateCaseNote", "toggleSlot", "editCaseNote",
   "updateAppointmentStatus", "createSlot", "updateSlot", "deleteSlot",
   "bookSlotByTime", "cleanupExpiredSessions"}

\* ------------------------------------------------------------ control flow
\* The response body: the status kind, and the caseId / token it carries.
\* priority: the body also carries the priority stored with a new token.
Response(code, caseId, token) ==
  [code |-> code, caseId |-> caseId, token |-> token, priority |-> FALSE,
   notification |-> "none"]
NoResponse == Response("none", NoCase, NoToken)

\* The tables before any request / after client s has booked session s
\* through bookSlot, for the first sessions.
Seeded == 1..(IF NumSessions < NumClients THEN NumSessions ELSE NumClients)
FreshTables ==
  /\ sessions = [s \in Sessions |-> SessionRow(s)]
  /\ cases = << >>
  /\ history = << >>
  /\ codes = [c \in Codes |-> FALSE]
BookedTables ==
  /\ sessions = [s \in Sessions |->
                   IF s \in Seeded
                     THEN [SessionRow(s) EXCEPT !.status = "booked", !.caseId = s]
                     ELSE SessionRow(s)]
  /\ cases = [c \in Seeded |-> BookedCase(c, SessionRow(c).counselorId)]
  /\ history = [c \in Seeded |-> HistoryRow(c, "booking_created")]
  /\ codes = [c \in Codes |-> FALSE]

\* The tables after client s has booked session s through the first
\* booking controller, which writes no history row.
LegacyTables ==
  /\ sessions = [s \in Sessions |->
                   IF s \in Seeded
                     THEN [SessionRow(s) EXCEPT !.status = "booked", !.caseId = s]
                     ELSE SessionRow(s)]
  /\ cases = [c \in Seeded |-> BookedCase(c, SessionRow(c).counselorId)]
  /\ history = << >>
  /\ codes = [c \in Codes |-> FALSE]

\* The tables after the first client has booked the first session through
\* bookSession in June: the case has its queue token, the session its visit.
VisitedTables ==
  LET token == (((Year + BuddhistOffset) % 100) * SeqWidth) + 1 IN
  /\ sessions = [s \in Sessions |->
                   IF s = 1
                     THEN [SessionRow(s) EXCEPT !.status = "booked", !.caseId = 1,
                                                !.sessionToken = (token * VisitWidth) + 1]
                     ELSE SessionRow(s)]
  /\ cases = <<[CaseRow(1, "waiting_confirmation") EXCEPT !.queueToken = token]>>
  /\ history = <<HistoryRow(1, "CLIENT_BOOKED")>>
  /\ codes = [c \in Codes |-> FALSE]

\* The tables after the first counselor has created a slot for each hour
\* from the first slot of the next day on, all in the same room.
RosterTables ==
  /\ sessions = [s \in Sessions |->
                   NewSlot(1, FirstSlot + ((s - 1) * MinutesPerHour), 1)]
  /\ cases = << >>
  /\ history = << >>
  /\ codes = [c \in Codes |-> FALSE]

\* The tables after counselor s has created a slot in room s for the first
\* hour of the next day, for every seeded session s.
SharedHourTables ==
  /\ sessions = [s \in Sessions |-> NewSlot(s, FirstSlot, s)]
  /\ cases = << >>
  /\ history = << >>
  /\ codes = [c \in Codes |-> FALSE]

\* The roster with the first session on an interval of any length around
\* the first slot, a quarter of an hour apart.
Instants ==
  {FirstSlot - MinutesPerHour + (k * (MinutesPerHour \div 4)) : k \in 0..MaxQuarters}
IntervalTables ==
  /\ \E a, b \in Instants :
       /\ a < b
       /\ sessions = [s \in Sessions |->
            IF s = 1
              THEN [NewSlot(1, a, 1) EXCEPT !.timeEnd = b]
              ELSE NewSlot(1, FirstSlot + ((s - 1) * MinutesPerHour), 1)]
  /\ cases = << >>
  /\ history = << >>
  /\ codes = [c \in Codes |-> FALSE]

\* The tables a day on: every session started in the first minutes of
\* today, and the counselor has closed and reopened at most one of them in
\* the portal, which left its two history rows.
StaleTables ==
  /\ sessions = [s \in Sessions |-> NewSlot(1, SlotStart(s) - LeadMinutes, 1)]
  /\ cases = << >>
  /\ \E toggled \in {0} \cup Sessions :
       history = IF toggled = 0 THEN << >>
                 ELSE <<HistoryRow(toggled, "PORTAL_SLOT_TOGGLED"),
                        HistoryRow(toggled, "PORTAL_SLOT_TOGGLED")>>
  /\ codes = [c \in Codes |-> FALSE]

\* The tables after client c has redeemed registration code c, for the
\* first clients: each has a case that waits for confirmation, without token.
Redeemed == 1..(IF NumCodes < NumClients THEN NumCodes ELSE NumClients)
WaitingTables ==
  /\ sessions = [s \in Sessions |-> SessionRow(s)]
  /\ cases = [c \in Redeemed |-> CaseRow(c, "waiting_confirmation")]
  /\ history = << >>
  /\ codes = [c \in Codes |-> c \in Redeemed]

\* Continue at the next await with the handler's locals l.
Step(p, label, l) ==
  /\ pc' = [pc EXCEPT ![p] = label]
  /\ loc' = [loc EXCEPT ![p] = l]
  /\ UNCHANGED resp

\* res.status(...).json(...): the handler returns, its locals are gone.
ReplyWith(p, code, caseId, token) ==
  /\ pc' = [pc EXCEPT ![p] = "done"]
  /\ resp' = [resp EXCEPT ![p] = Response(code, caseId, token)]
  /\ loc' = [loc EXCEPT ![p] = NoLocals]

Reply(p, code) == ReplyWith(p, code, NoCase, NoToken)

\* A workload: handlers K, calendar months M, tables T, the slots A that
\* carry requests, and the number n their first request counts as; every
\* slot of A starts with a request in flight.
Idle(K) == CHOOSE r \in Requests(K) : TRUE
InitW(K, M, T, A, n) ==
  /\ CASE T = "fresh" -> FreshTables
       [] T = "booked" -> BookedTables
       [] T = "waiting" -> WaitingTables
       [] T = "legacy" -> LegacyTables
       [] T = "visited" -> VisitedTables
       [] T = "roster" -> RosterTables
       [] T = "shared" -> SharedHourTables
       [] T = "intervals" -> IntervalTables
       [] T = "stale" -> StaleTables
  /\ sessionSeq = NumSessions
  /\ now = 0
  /\ month \in M
  /\ \E f \in [A -> Requests(K)] :
       req = [p \in Procs |-> IF p \in A THEN f[p] ELSE Idle(K)]
  /\ pc = [p \in Procs |-> IF p \in A THEN EntryOf(req[p].kind) ELSE "done"]
  /\ loc = [p \in Procs |-> NoLocals]
  /\ resp = [p \in Procs |-> NoResponse]
  /\ reqNo = [p \in Procs |-> IF p \in A THEN n ELSE MaxReqs]

\* A finished slot carries the next request.
InvokeW(K, p) ==
  /\ pc[p] = "done"
  /\ reqNo[p] < MaxReqs
  /\ \E r \in Requests(K) :
       /\ req' = [req EXCEPT ![p] = r]
       /\ pc' = [pc EXCEPT ![p] = EntryOf(r.kind)]
  /\ loc' = [loc EXCEPT ![p] = NoLocals]
  /\ resp' = [resp EXCEPT ![p] = NoResponse]
  /\ reqNo' = [reqNo EXCEPT ![p] = @ + 1]
  /\ UNCHANGED <<db, clock>>

\* The wall clock moves on by a minute, or by a day.
Tick ==
  /\ \/ now % LeadMinutes < MaxMinute /\ now' = now + 1
     \/ now \div LeadMinutes < MaxDay /\ now' = now + LeadMinutes
  /\ UNCHANGED <<db, month, pc, req, loc, resp, reqNo>>

\* ----------------------------------------------------------------- queries
Max(S) == CHOOSE x \in S : \A y \in S : y <= x

\* prisma.case.findFirst({ where: { clientId }, orderBy: { createdAt: "desc" } })
CasesOf(client) == {c \in CaseIds : cases[c].clientId = client}
LatestCase(client) == IF CasesOf(client) = {} THEN NoCase ELSE Max(CasesOf(client))

\* sessions: { some: { timeStart: { gte: now }, status: { not: 'available' } } }
HoldsActiveSession(c) ==
  \E s \in DOMAIN sessions :
    /\ sessions[s].caseId = c
    /\ sessions[s].timeStart >= now
    /\ sessions[s].status # "available"

\* bookSlot's existingActiveCase
ExistingActiveCase(client) ==
  \E c \in CaseIds :
    /\ cases[c].clientId = client
    /\ cases[c].status # "cancelled"
    /\ HoldsActiveSession(c)

\* tx.session.updateMany({ where: { sessionId, status: 'available' } }).count
Reservable(s) == s \in DOMAIN sessions /\ sessions[s].status = "available"

\* tx.session.count({ where: { caseId } })
SessionCount(c) == Cardinality({s \in DOMAIN sessions : sessions[s].caseId = c})

\* ------------------------------------------------------------------ tokens
\* if (currentCase.queueToken) return currentCase.queueToken
\* a get-or-create that never takes the early return
TokenIgnored(t) == FALSE

HasToken(t) == t # NoToken

Token(prefix, n) == prefix * SeqWidth + n
PrefixOf(t) == t \div SeqWidth
SeqOf(t) == t % SeqWidth

\* generateQueueToken: thaiYear, minus one before June, slice(-2)
AcademicYearPrefix(y, m) ==
  ((y + BuddhistOffset) - (IF m < JuneIndex THEN 1 ELSE 0)) % 100

\* getOrGenerateQueueToken: thaiYear.toString().slice(-2), no month rule
BookingYearPrefix(y, m) == (y + BuddhistOffset) % 100

\* a numbering that starts at 0
NextNumberFromZero(prefix) ==
  LET used == {cases[c].queueToken % SeqWidth :
                 c \in {d \in CaseIds : /\ cases[d].queueToken # NoToken
                                        /\ cases[d].queueToken \div SeqWidth = prefix}}
  IN IF used = {} THEN 0 ELSE Max(used) + 1

\* findFirst({ where: { queueToken: { startsWith } }, orderBy: desc }) + 1
NextNumber(prefix) ==
  LET used == {SeqOf(cases[c].queueToken) :
                 c \in {d \in CaseIds : /\ cases[d].queueToken # NoToken
                                        /\ PrefixOf(cases[d].queueToken) = prefix}}
  IN IF used = {} THEN 1 ELSE Max(used) + 1

\* `${caseToken}-${(sessionCount + 1).toString().padStart(3, "0")}`
SessionToken(caseToken, count) == caseToken * VisitWidth + (count + 1)

\* --------------------------------------------------- transactions in flight
\* A bookSession transaction that has written the case row keeps the row lock
\* and its index entry until it commits.
InTx(q) == pc[q] \in {"bookSession_txCount", "bookSession_txReserve"}

\* updateAppointmentStatus between its case.update and its commit
InStatusTx(q) ==
  pc[q] \in {"updateAppointmentStatus_txRelease", "updateAppointmentStatus_txCommit"}

CaseLocked(c, p) ==
  \E q \in Procs \ {p} :
    \/ InTx(q) /\ loc[q].pending # NoToken /\ loc[q].caseId = c
    \/ InStatusTx(q) /\ req[q].caseId = c

\* the rows an uncommitted session.updateMany({ where: { caseId } }) has written
SessionLocked(s, p) ==
  \E q \in Procs \ {p} :
    pc[q] = "updateAppointmentStatus_txCommit" /\ s \in loc[q].released

TokenPending(t, p) ==
  \E q \in Procs \ {p} : InTx(q) /\ loc[q].pending = t /\ t # NoToken

\* CREATE UNIQUE INDEX "Case_queueToken_key" ON "Case"("queueToken")
UniqueViolation(c, t) ==
  \E d \in CaseIds \ {c} : cases[d].queueToken = t

\* What a commit of slot p's transaction writes to the Case table.
CommitPending(p) ==
  IF loc[p].pending = NoToken THEN cases
  ELSE [cases EXCEPT ![loc[p].caseId].queueToken = loc[p].pending]

\* ----------------------------------------------------- bookSlot (current)
\* normalizeTimeInput: HH:mm of an hour 0..23 and a minute 0..59, or null
normalizeTimeInput(h, m) ==
  IF h \in 0..(HoursPerDay - 1) /\ m \in 0..(MinutesPerHour - 1) THEN <<h, m>> ELSE << >>

\* formatTime: the HH:mm of a timestamp
formatTime(t) == <<(t % DayMinutes) \div MinutesPerHour, t % MinutesPerHour>>

\* getDayRange: 00:00:00.000 to 23:59:59.999 of the day
getDayRange(d) == [start |-> d * DayMinutes, end |-> (d * DayMinutes) + (DayMinutes - 1)]

\* the counselor's name, normalised; sessions without a counselor show "Counselor #-"
BaseName(counselor) == counselor

\* any session passes
AnyTime(s, time) == TRUE

\* formatTime(session.timeStart) === normalizedTime
ByTime(s, time) == sessions[s].timeStart # NoTime /\ formatTime(sessions[s].timeStart) = time

\* findMany over the available sessions of the day, then the filters by time
\* and by counselor name
Candidates(r) ==
  LET range == getDayRange(r.day)
      found == {s \in DOMAIN sessions :
                  /\ sessions[s].status = "available"
                  /\ sessions[s].timeStart >= range.start
                  /\ sessions[s].timeStart <= range.end
                  /\ r.counselorId # NoCounselor => sessions[s].counselorId = r.counselorId}
      byTime == {s \in found : ByTime(s, normalizeTimeInput(r.hour, r.minute))}
  IN IF r.counselorName = NoCounselor THEN byTime
     ELSE {s \in byTime : BaseName(sessions[s].counselorId) = r.counselorName}

bookSlot_resolve(p) ==
  /\ pc[p] = "bookSlot_resolve"
  /\ IF normalizeTimeInput(req[p].hour, req[p].minute) = << >>
       THEN Reply(p, "BadRequest")
     ELSE IF Candidates(req[p]) = {} THEN Reply(p, "NotFound")
     ELSE IF Cardinality(Candidates(req[p])) > 1 THEN Reply(p, "Conflict")
     ELSE Step(p, "bookSlot_checkActive",
               [loc[p] EXCEPT !.session = CHOOSE s \in Candidates(req[p]) : TRUE])
  /\ UNCHANGED <<db, clock, req, reqNo>>

\* selectedSession: the one the request names, or the one resolved
Selected(p) == IF req[p].kind = "bookSlotByTime" THEN loc[p].session ELSE req[p].session

bookSlot_find(p) ==
  /\ pc[p] = "bookSlot_find"
  /\ IF ~Reservable(req[p].session)
       THEN Reply(p, "NotFound")
       ELSE Step(p, "bookSlot_checkActive", loc[p])
  /\ UNCHANGED <<db, clock, req, reqNo>>

bookSlot_checkActive(p) ==
  /\ pc[p] = "bookSlot_checkActive"
  /\ IF ExistingActiveCase(req[p].client)
       THEN Reply(p, "Conflict")
       ELSE Step(p, "bookSlot_tx", loc[p])
  /\ UNCHANGED <<db, clock, req, reqNo>>

bookSlot_tx(p) ==
  LET s == Selected(p)
      newCase == Len(cases) + 1
  IN
  /\ pc[p] = "bookSlot_tx"
  /\ Reservable(s) => ~SessionLocked(s, p)
  /\ Len(cases) < MaxCases
  /\ Len(history) < MaxHistory
  /\ IF Reservable(s)
       THEN /\ UNCHANGED sessionSeq
            /\ sessions' = [sessions EXCEPT ![s].status = "booked",
                                            ![s].caseId = newCase]
            /\ cases' = Append(cases, BookedCase(req[p].client, sessions[s].counselorId))
            /\ history' = Append(history, HistoryRow(s, "booking_created"))
            /\ ReplyWith(p, "OK", newCase, NoToken)
       ELSE /\ Reply(p, "Conflict")
            /\ UNCHANGED <<sessions, sessionSeq, cases, history>>
  /\ UNCHANGED <<codes, clock, req, reqNo>>

\* ------------------------------------- bookSlot (controllers/bookingController)
bookSlotV1_tx(p) ==
  LET s == req[p].session
      newCase == Len(cases) + 1
  IN
  /\ pc[p] = "bookSlotV1_tx"
  /\ Reservable(s) => ~SessionLocked(s, p)
  /\ Len(cases) < MaxCases
  /\ IF Reservable(s)
       THEN /\ UNCHANGED sessionSeq
            /\ sessions' = [sessions EXCEPT ![s].status = "booked",
                                            ![s].caseId = newCase]
            /\ cases' = Append(cases, BookedCase(req[p].client, sessions[s].counselorId))
            /\ ReplyWith(p, "OK", newCase, NoToken)
       ELSE /\ Reply(p, "Internal")
            /\ UNCHANGED <<sessions, sessionSeq, cases>>
  /\ UNCHANGED <<history, codes, clock, req, reqNo>>

\* ------------------------------------------------------------- bookSession
bookSession_findCase(p) ==
  LET latest == LatestCase(req[p].client) IN
  /\ pc[p] = "bookSession_findCase"
  /\ IF latest = NoCase
       THEN Step(p, "bookSession_createCase", loc[p])
       ELSE Step(p, "bookSession_txFind", [loc[p] EXCEPT !.caseId = latest])
  /\ UNCHANGED <<db, clock, req, reqNo>>

bookSession_createCase(p) ==
  /\ pc[p] = "bookSession_createCase"
  /\ Len(cases) < MaxCases
  /\ cases' = Append(cases, CaseRow(req[p].client, "waiting_confirmation"))
  /\ Step(p, "bookSession_txFind", [loc[p] EXCEPT !.caseId = Len(cases) + 1])
  /\ UNCHANGED <<sessions, sessionSeq, history, codes, clock, req, reqNo>>

\* tx.session.findUnique, then getOrGenerateQueueToken's read of the case
bookSession_txFind(p) ==
  LET current == cases[loc[p].caseId].queueToken IN
  /\ pc[p] = "bookSession_txFind"
  /\ IF HasToken(current)
       THEN Step(p, "bookSession_txCount", [loc[p] EXCEPT !.token = current])
       ELSE Step(p, "bookSession_txLast", loc[p])
  /\ UNCHANGED <<db, clock, req, reqNo>>

\* getOrGenerateQueueToken: lastCase, nextNumber, newToken
bookSession_txLast(p) ==
  LET prefix == BookingYearPrefix(Year, month) IN
  /\ pc[p] = "bookSession_txLast"
  /\ Step(p, "bookSession_txToken",
          [loc[p] EXCEPT !.token = Token(prefix, NextNumber(prefix))])
  /\ UNCHANGED <<db, clock, req, reqNo>>

\* getOrGenerateQueueToken: tx.case.update({ data: { queueToken: newToken } })
bookSession_txToken(p) ==
  LET c == loc[p].caseId
      t == loc[p].token
  IN
  /\ pc[p] = "bookSession_txToken"
  /\ ~CaseLocked(c, p)
  /\ ~TokenPending(t, p)
  /\ IF UniqueViolation(c, t)
       THEN Reply(p, "Internal")
       ELSE Step(p, "bookSession_txCount", [loc[p] EXCEPT !.pending = t])
  /\ UNCHANGED <<db, clock, req, reqNo>>

bookSession_txCount(p) ==
  /\ pc[p] = "bookSession_txCount"
  /\ Step(p, "bookSession_txReserve",
          [loc[p] EXCEPT !.count = SessionCount(loc[p].caseId)])
  /\ UNCHANGED <<db, clock, req, reqNo>>

\* an index that never refuses a session token
SessionTokenFree(s, t) == FALSE

\* the unique index on Session.sessionToken: another row holds the value
SessionTokenTaken(s, t) ==
  \E o \in DOMAIN sessions \ {s} : sessions[o].sessionToken = t

\* the conditional update, the history row and the commit; a write the
\* index refuses throws, the transaction rolls back and the catch answers 500
bookSession_txReserve(p) ==
  LET s == req[p].session
      c == loc[p].caseId
      t == SessionToken(loc[p].token, loc[p].count)
  IN
  /\ pc[p] = "bookSession_txReserve"
  /\ Reservable(s) => ~SessionLocked(s, p)
  /\ Len(history) < MaxHistory
  /\ cases' = IF Reservable(s) /\ SessionTokenTaken(s, t)
                THEN cases ELSE CommitPending(p)
  /\ IF Reservable(s) /\ SessionTokenTaken(s, t)
       THEN /\ Reply(p, "Internal")
            /\ UNCHANGED <<sessions, sessionSeq, history>>
     ELSE IF Reservable(s)
       THEN /\ UNCHANGED sessionSeq
            /\ sessions' =
                 [sessions EXCEPT ![s].status = "booked",
                                  ![s].caseId = c,
                                  ![s].sessionToken =
                                     SessionToken(loc[p].token, loc[p].count)]
            /\ history' = Append(history, HistoryRow(s, "CLIENT_BOOKED"))
            /\ Step(p, "bookSession_mail", loc[p])
       ELSE /\ Reply(p, "Conflict")
            /\ UNCHANGED <<sessions, sessionSeq, history>>
  /\ UNCHANGED <<codes, clock, req, reqNo>>

\* After the transaction has returned ok, with SMTP configured: sendMail is
\* started and not awaited; its promise resolves ("mail") or rejects into the
\* .catch that logs ("mailError").  The handler then answers "Booked
\* successfully".  (Without SMTP settings buildMailer() gives null and no
\* mail is attempted.)
MailOutcomes == {"mail", "mailError"}
FailedOutcomes == {"mailError", "fallback"}
NotifiedOrFails(p, code, caseId, outcome) ==
  /\ pc' = [pc EXCEPT ![p] = "done"]
  /\ resp' = [resp EXCEPT ![p] =
       [Response(IF outcome \in FailedOutcomes THEN "Internal" ELSE code,
                 caseId, NoToken) EXCEPT !.notification = outcome]]
  /\ loc' = [loc EXCEPT ![p] = NoLocals]
Notified(p, code, caseId, outcome) ==
  /\ pc' = [pc EXCEPT ![p] = "done"]
  /\ resp' = [resp EXCEPT ![p] = [Response(code, caseId, NoToken)
                                    EXCEPT !.notification = outcome]]
  /\ loc' = [loc EXCEPT ![p] = NoLocals]
bookSession_mail(p) ==
  /\ pc[p] = "bookSession_mail"
  /\ \E outcome \in MailOutcomes : Notified(p, "OK", loc[p].caseId, outcome)
  /\ UNCHANGED <<db, clock, req, reqNo>>


\* ----------------------------------------------------------- cancelBooking
\* a lead-time rule that also refuses the boundary itself
LeadTooShortInclusive(lead) == lead <= LeadMinutes

\* hoursUntilSession < 24
LeadTooShort(lead) == lead < LeadMinutes

CancelActions == {"CLIENT_CANCELLED", "PORTAL_CANCELLED_BOOKING"}

\* history rows of session s whose action is a cancellation
CancelAudits(h, s) ==
  Cardinality({i \in 1..Len(h) : h[i].sessionId = s /\ h[i].action \in CancelActions})

\* session.case.clientId === client.clientId
OwnedBy(s, client) ==
  /\ sessions[s].caseId # NoCase
  /\ cases[sessions[s].caseId].clientId = client

\* Release slot as the session/portal controllers write it.
Released(row) == [row EXCEPT !.status = "available", !.caseId = NoCase, !.note = 0]

cancelBooking_find(p) ==
  LET s == req[p].session
      lead == sessions[s].timeStart - now
  IN
  /\ pc[p] = "cancelBooking_find"
  /\ IF ~OwnedBy(s, req[p].client) THEN Reply(p, "Forbidden")
     ELSE IF LeadTooShort(lead) THEN Reply(p, "LeadTime")
     ELSE Step(p, "cancelBooking_tx",
               [loc[p] EXCEPT !.caseId = sessions[s].caseId, !.lead = lead,
                              !.audits = CancelAudits(history, s)])
  /\ UNCHANGED <<db, clock, req, reqNo>>

cancelBooking_tx(p) ==
  LET s == req[p].session IN
  /\ pc[p] = "cancelBooking_tx"
  /\ ~SessionLocked(req[p].session, p)
  /\ ~CaseLocked(loc[p].caseId, p)
  /\ cases' = [cases EXCEPT ![loc[p].caseId].status = "cancelled"]
  /\ UNCHANGED sessionSeq
  /\ sessions' = [sessions EXCEPT ![s].status = "available", ![s].caseId = NoCase]
  /\ Reply(p, "OK")
  /\ UNCHANGED <<history, codes, clock, req, reqNo>>

\* -------------------------------------------------------- cancelClientSession
cancelClientSession_find(p) ==
  LET s == req[p].session IN
  /\ pc[p] = "cancelClientSession_find"
  /\ IF ~OwnedBy(s, req[p].client) THEN Reply(p, "Forbidden")
     ELSE Step(p, "cancelClientSession_update",
               [loc[p] EXCEPT !.caseId = sessions[s].caseId,
                              !.lead = sessions[s].timeStart - now,
                              !.audits = CancelAudits(history, s)])
  /\ UNCHANGED <<db, clock, req, reqNo>>

cancelClientSession_update(p) ==
  LET s == req[p].session IN
  /\ pc[p] = "cancelClientSession_update"
  /\ ~SessionLocked(req[p].session, p)
  /\ UNCHANGED sessionSeq
  /\ sessions' = [sessions EXCEPT ![s] = Released(@)]
  /\ Step(p, "cancelClientSession_history", loc[p])
  /\ UNCHANGED <<cases, history, codes, clock, req, reqNo>>

cancelClientSession_history(p) ==
  /\ pc[p] = "cancelClientSession_history"
  /\ Len(history) < MaxHistory
  /\ history' = Append(history, HistoryRow(req[p].session, "CLIENT_CANCELLED"))
  /\ Reply(p, "OK")
  /\ UNCHANGED <<sessions, sessionSeq, cases, codes, clock, req, reqNo>>

\* ----------------------------------------------------------- cancelBookedSlot
\* (s.status || "").toLowerCase() === "booked" && !!s.caseId
IsBooked(s) == sessions[s].status = "booked" /\ sessions[s].caseId # NoCase

cancelBookedSlot_find(p) ==
  LET s == req[p].session IN
  /\ pc[p] = "cancelBookedSlot_find"
  /\ IF ~IsBooked(s) THEN Reply(p, "Conflict")
     ELSE Step(p, "cancelBookedSlot_update",
               [loc[p] EXCEPT !.caseId = sessions[s].caseId,
                              !.status = sessions[s].status,
                              !.audits = CancelAudits(history, s)])
  /\ UNCHANGED <<db, clock, req, reqNo>>

cancelBookedSlot_update(p) ==
  LET s == req[p].session IN
  /\ pc[p] = "cancelBookedSlot_update"
  /\ ~SessionLocked(req[p].session, p)
  /\ UNCHANGED sessionSeq
  /\ sessions' = [sessions EXCEPT ![s] = Released(@)]
  /\ Step(p, "cancelBookedSlot_history", loc[p])
  /\ UNCHANGED <<cases, history, codes, clock, req, reqNo>>

cancelBookedSlot_history(p) ==
  /\ pc[p] = "cancelBookedSlot_history"
  /\ Len(history) < MaxHistory
  /\ history' = Append(history, HistoryRow(req[p].session, "PORTAL_CANCELLED_BOOKING"))
  /\ Reply(p, "OK")
  /\ UNCHANGED <<sessions, sessionSeq, cases, codes, clock, req, reqNo>>


\* ------------------------------------------------- verifyCodeAndCreateCase
verifyCodeAndCreateCase_find(p) ==
  /\ pc[p] = "verifyCodeAndCreateCase_find"
  /\ IF codes[req[p].code] THEN Reply(p, "CodeUsed")
     ELSE Step(p, "verifyCodeAndCreateCase_tx", loc[p])
  /\ UNCHANGED <<db, clock, req, reqNo>>

verifyCodeAndCreateCase_tx(p) ==
  /\ pc[p] = "verifyCodeAndCreateCase_tx"
  /\ Len(cases) < MaxCases
  /\ cases' = Append(cases, CaseRow(req[p].client, "waiting_confirmation"))
  /\ codes' = [codes EXCEPT ![req[p].code] = TRUE]
  /\ Reply(p, "OK")
  /\ UNCHANGED <<sessions, sessionSeq, history, clock, req, reqNo>>

\* ------------------------------------------------------ generateQueueToken
\* findFirst({ where: { clientId, status: 'waiting_confirmation' },
\*             orderBy: { createdAt: 'desc' } })
WaitingCase(client) ==
  LET W == {c \in CasesOf(client) : cases[c].status = "waiting_confirmation"}
  IN IF W = {} THEN NoCase ELSE Max(W)

generateQueueToken_findCase(p) ==
  LET c == WaitingCase(req[p].client) IN
  /\ pc[p] = "generateQueueToken_findCase"
  /\ IF c = NoCase THEN Reply(p, "NotFound")
     ELSE IF HasToken(cases[c].queueToken)
       THEN ReplyWith(p, "OK", c, cases[c].queueToken)
     ELSE Step(p, "generateQueueToken_last", [loc[p] EXCEPT !.caseId = c])
  /\ UNCHANGED <<db, clock, req, reqNo>>

generateQueueToken_last(p) ==
  LET prefix == AcademicYearPrefix(Year, month) IN
  /\ pc[p] = "generateQueueToken_last"
  /\ Step(p, "generateQueueToken_update",
          [loc[p] EXCEPT !.token = Token(prefix, NextNumber(prefix))])
  /\ UNCHANGED <<db, clock, req, reqNo>>

generateQueueToken_update(p) ==
  LET c == loc[p].caseId
      t == loc[p].token
  IN
  /\ pc[p] = "generateQueueToken_update"
  /\ ~CaseLocked(c, p)
  /\ ~TokenPending(t, p)
  /\ IF UniqueViolation(c, t)
       THEN /\ Reply(p, "Internal")
            /\ UNCHANGED cases
       ELSE /\ cases' = [cases EXCEPT ![c].queueToken = t]
            /\ pc' = [pc EXCEPT ![p] = "done"]
            /\ resp' = [resp EXCEPT ![p] = [Response("OK", c, t) EXCEPT !.priority = TRUE]]
            /\ loc' = [loc EXCEPT ![p] = NoLocals]
  /\ UNCHANGED <<sessions, sessionSeq, history, codes, clock, req, reqNo>>


\* ---------------------------------------------------------- updateCaseNote
updateCaseNote_find(p) ==
  LET s == req[p].session IN
  /\ pc[p] = "updateCaseNote_find"
  /\ IF sessions[s].counselorId \notin Counselors THEN Reply(p, "Forbidden")
     ELSE Step(p, "updateCaseNote_update", [loc[p] EXCEPT !.status = sessions[s].status])
  /\ UNCHANGED <<db, clock, req, reqNo>>

\* status: markCompleted ? "completed" : s.status
AfterStatus(mark, status) == IF mark THEN "completed" ELSE status

updateCaseNote_update(p) ==
  LET s == req[p].session IN
  /\ pc[p] = "updateCaseNote_update"
  /\ ~SessionLocked(req[p].session, p)
  /\ UNCHANGED sessionSeq
  /\ sessions' = [sessions EXCEPT ![s].note = 1,
                                  ![s].status = AfterStatus(req[p].mark, loc[p].status)]
  /\ Step(p, "updateCaseNote_history", loc[p])
  /\ UNCHANGED <<cases, history, codes, clock, req, reqNo>>

updateCaseNote_history(p) ==
  /\ pc[p] = "updateCaseNote_history"
  /\ Len(history) < MaxHistory
  /\ history' = Append(history,
                        AuditRow(req[p].session, "COUNSELOR_NOTE_UPDATED",
                                 <<loc[p].status,
                                   AfterStatus(req[p].mark, loc[p].status)>>))
  /\ Reply(p, "OK")
  /\ UNCHANGED <<sessions, sessionSeq, cases, codes, clock, req, reqNo>>

\* ------------------------------------------------------------ editCaseNote
\* tx.session.findUnique and the ownership check; a throw rolls back
editCaseNote_txFind(p) ==
  LET s == req[p].session IN
  /\ pc[p] = "editCaseNote_txFind"
  /\ IF sessions[s].counselorId # req[p].actor THEN Reply(p, "Forbidden")
     ELSE Step(p, "editCaseNote_tx", [loc[p] EXCEPT !.before = sessions[s].note])
  /\ UNCHANGED <<db, clock, req, reqNo>>

\* tx.session.update, tx.sessionHistory.create with before and after, commit
editCaseNote_tx(p) ==
  LET s == req[p].session IN
  /\ pc[p] = "editCaseNote_tx"
  /\ ~SessionLocked(req[p].session, p)
  /\ Len(history) < MaxHistory
  /\ UNCHANGED sessionSeq
  /\ sessions' = [sessions EXCEPT ![s].note = req[p].note]
  /\ history' = Append(history,
                        AuditRow(s, "edit_case_note", <<loc[p].before, req[p].note>>))
  /\ Reply(p, "OK")
  /\ UNCHANGED <<cases, codes, clock, req, reqNo>>

\* -------------------------------------------------- updateAppointmentStatus
\* a handler that changes the status of any counselor's case
OwnershipUnchecked(row, actor) == FALSE

\* currentCase.counselorId && currentCase.counselorId !== counselorId
AssignedToOther(row, actor) ==
  row.counselorId # NoCounselor /\ row.counselorId # actor

\* tx.case.findUnique with its sessions; CASE_NOT_FOUND and FORBIDDEN throw
\* before the transaction: 400 for a blank status or one that does not
\* normalize to an allowed status; nextStatus is kept for the rest
updateAppointmentStatus_validate(p) ==
  LET raw == req[p].rawStatus
      nextStatus == normalizeStatus(raw)
  IN
  /\ pc[p] = "updateAppointmentStatus_validate"
  /\ IF Len(trim(raw)) = 0 \/ nextStatus \notin TargetStatuses
       THEN Reply(p, "BadRequest") /\ UNCHANGED req
       ELSE /\ Step(p, "updateAppointmentStatus_txFind", loc[p])
            /\ req' = [req EXCEPT ![p].status = nextStatus]
  /\ UNCHANGED <<db, clock, reqNo>>

updateAppointmentStatus_txFind(p) ==
  LET c == req[p].caseId IN
  /\ pc[p] = "updateAppointmentStatus_txFind"
  /\ IF c \notin CaseIds THEN Reply(p, "NotFound")
     ELSE IF AssignedToOther(cases[c], req[p].actor) THEN Reply(p, "Forbidden")
     ELSE Step(p, "updateAppointmentStatus_txUpdate",
               [loc[p] EXCEPT !.status = cases[c].status,
                              !.counselor = cases[c].counselorId,
                              !.confirmedAt = cases[c].confirmedAt,
                              !.linked = {s \in DOMAIN sessions : sessions[s].caseId = c}])
  /\ UNCHANGED <<db, clock, req, reqNo>>

\* confirmedAt: nextStatus === 'confirmed' ? new Date() : currentCase.confirmedAt
ConfirmedAt(next, read, at) == IF next = "confirmed" THEN at ELSE read

\* counselorId: currentCase.counselorId || counselorId
AssignedCounselor(read, actor) == IF read # NoCounselor THEN read ELSE actor

\* tx.case.update: takes the row lock; the row it writes is built from the
\* row that was read
updateAppointmentStatus_txUpdate(p) ==
  LET c == req[p].caseId IN
  /\ pc[p] = "updateAppointmentStatus_txUpdate"
  /\ ~CaseLocked(c, p)
  /\ Step(p, IF req[p].status = "cancelled"
               THEN "updateAppointmentStatus_txRelease"
               ELSE "updateAppointmentStatus_txCommit",
          [loc[p] EXCEPT
             !.counselor = AssignedCounselor(loc[p].counselor, req[p].actor),
             !.confirmedAt = ConfirmedAt(req[p].status, loc[p].confirmedAt, now)])
  /\ UNCHANGED <<db, clock, req, reqNo>>

\* tx.session.updateMany({ where: { caseId } }): the rows linked now
updateAppointmentStatus_txRelease(p) ==
  LET c == req[p].caseId IN
  /\ pc[p] = "updateAppointmentStatus_txRelease"
  /\ Step(p, "updateAppointmentStatus_txCommit",
          [loc[p] EXCEPT !.released = {s \in DOMAIN sessions : sessions[s].caseId = c}])
  /\ UNCHANGED <<db, clock, req, reqNo>>

\* for (const session of currentCase.sessions): one row each, in id order
RECURSIVE StatusAudits(_, _, _, _)
StatusAudits(ss, prev, next, reason) ==
  IF ss = {} THEN << >>
  ELSE LET s == CHOOSE x \in ss : \A y \in ss : x <= y IN
       <<AuditRow(s, "appointment_status_updated", <<prev, next, reason>>)>>
         \o StatusAudits(ss \ {s}, prev, next, reason)

\* the tx.sessionHistory.create of every session that was read, and the commit
NotifiedStatuses == {"rescheduled", "cancelled"}
updateAppointmentStatus_txCommit(p) ==
  LET c == req[p].caseId
      rows == StatusAudits(loc[p].linked, loc[p].status, req[p].status,
                           req[p].reason)
  IN
  /\ pc[p] = "updateAppointmentStatus_txCommit"
  /\ Len(history) + Len(rows) <= MaxHistory
  /\ cases' = [cases EXCEPT ![c].status = req[p].status,
                            ![c].counselorId = loc[p].counselor,
                            ![c].confirmedAt = loc[p].confirmedAt]
  /\ UNCHANGED sessionSeq
  /\ sessions' = [s \in DOMAIN sessions |->
                    IF s \in loc[p].released
                      THEN [sessions[s] EXCEPT !.status = "available",
                                               !.caseId = NoCase]
                      ELSE sessions[s]]
  /\ history' = history \o rows
  /\ IF req[p].status \in NotifiedStatuses
       THEN Step(p, "updateAppointmentStatus_notify", loc[p])
       ELSE ReplyWith(p, "OK", c, NoToken)
  /\ UNCHANGED <<codes, clock, req, reqNo>>

\* sendAppointmentNotification, awaited after the transaction, with a
\* webhook URL configured: the post succeeds ("webhook") or throws into the
\* catch that logs and falls through to the console ("fallback").  It
\* returns in every case and the handler answers 200.
WebhookOutcomes == {"webhook", "fallback"}
updateAppointmentStatus_notify(p) ==
  /\ pc[p] = "updateAppointmentStatus_notify"
  /\ \E outcome \in WebhookOutcomes : Notified(p, "OK", req[p].caseId, outcome)
  /\ UNCHANGED <<db, clock, req, reqNo>>

\* ---------------------------------------------------------- getCaseHistory
\* a comparison that puts the older row first
Older(a, b) == a < b

\* sort((a, b) => new Date(b.timestamp) - new Date(a.timestamp)): a before b
Newer(a, b) == a > b

\* the rows of the sessions of case c; a row's place in the table is its id
\* and the order of its timestamp
HistoryIds(c) ==
  {i \in 1..Len(history) : sessions[history[i].sessionId].caseId = c}

RECURSIVE Sorted(_)
Sorted(ids) ==
  IF ids = {} THEN << >>
  ELSE LET first == CHOOSE i \in ids : \A j \in ids \ {i} : Newer(i, j)
       IN <<first>> \o Sorted(ids \ {first})

\* the body of the answer: the rows with their ids, as sorted
getCaseHistory(c) ==
  [n \in 1..Cardinality(HistoryIds(c)) |->
     [id |-> Sorted(HistoryIds(c))[n],
      sessionId |-> history[Sorted(HistoryIds(c))[n]].sessionId,
      action |-> history[Sorted(HistoryIds(c))[n]].action,
      details |-> history[Sorted(HistoryIds(c))[n]].details]]

\* -------------------------------------------------------------- toggleSlot
\* cur === "available" ? "closed" : "available"
NextStatus(cur) == IF cur = "available" THEN "closed" ELSE "available"

\* prisma.session.findFirst({ where: { roomId, timeStart } }): the rows it may return
SlotsAt(room, time) ==
  {s \in DOMAIN sessions : sessions[s].roomId = room /\ sessions[s].timeStart = time}

\* session.create: the row gets the next sessionId
CreateSession(row) ==
  /\ sessionSeq < NumSessions + MaxNewSlots
  /\ sessionSeq' = sessionSeq + 1
  /\ sessions' = (sessionSeq + 1 :> row) @@ sessions

toggleSlot_find(p) ==
  LET found == SlotsAt(req[p].room, req[p].time) IN
  /\ pc[p] = "toggleSlot_find"
  /\ IF found = {} THEN Step(p, "toggleSlot_create", loc[p])
     ELSE \E s \in found :
            IF IsBooked(s) THEN Reply(p, "Conflict")
            ELSE Step(p, "toggleSlot_update",
                      [loc[p] EXCEPT !.session = s, !.status = sessions[s].status])
  /\ UNCHANGED <<db, clock, req, reqNo>>

toggleSlot_create(p) ==
  /\ pc[p] = "toggleSlot_create"
  /\ CreateSession(NewSlot(req[p].room, req[p].time, NoCounselor))
  /\ Reply(p, "OK")
  /\ UNCHANGED <<cases, history, codes, clock, req, reqNo>>

toggleSlot_update(p) ==
  LET s == loc[p].session IN
  /\ pc[p] = "toggleSlot_update"
  /\ ~SessionLocked(s, p)
  /\ IF s \in DOMAIN sessions
       THEN /\ sessions' = [sessions EXCEPT ![s].status = NextStatus(loc[p].status),
                                            ![s].caseId = NoCase]
            /\ Step(p, "toggleSlot_history", loc[p])
       ELSE /\ Reply(p, "Internal")
            /\ UNCHANGED sessions
  /\ UNCHANGED <<sessionSeq, cases, history, codes, clock, req, reqNo>>

toggleSlot_history(p) ==
  /\ pc[p] = "toggleSlot_history"
  /\ Len(history) < MaxHistory
  /\ IF loc[p].session \in DOMAIN sessions
       THEN /\ history' = Append(history, HistoryRow(loc[p].session, "PORTAL_SLOT_TOGGLED"))
            /\ Reply(p, "OK")
       ELSE /\ Reply(p, "Internal")
            /\ UNCHANGED history
  /\ UNCHANGED <<sessions, sessionSeq, cases, codes, clock, req, reqNo>>

\* ---------------------------------------------------------- slot management
\* getUTCMinutes() === 0 and 9 <= getUTCHours() <= 15
isValidSessionTime(t) ==
  /\ t % MinutesPerHour = 0
  /\ (t % DayMinutes) \div MinutesPerHour \in FirstHour..LastHour

\* the OR of the overlap query, for a slot from start to end
OverlapsEnds(row, start, end) ==
  \/ row.timeStart <= start /\ row.timeEnd > start
  \/ row.timeStart < end /\ row.timeEnd >= end
Overlaps(row, start, end) ==
  \/ row.timeStart <= start /\ row.timeEnd > start
  \/ row.timeStart < end /\ row.timeEnd >= end
  \/ row.timeStart >= start /\ row.timeEnd <= end

\* findFirst({ where: { counselorId, sessionId: { not }, OR: [...] } })
OverlappingSlot(counselor, self, start) ==
  \E s \in DOMAIN sessions \ {self} :
    /\ sessions[s].counselorId = counselor
    /\ Overlaps(sessions[s], start, start + MinutesPerHour)

createSlot_overlap(p) ==
  /\ pc[p] = "createSlot_overlap"
  /\ IF ~isValidSessionTime(req[p].time) \/ req[p].time < now
       THEN Reply(p, "BadRequest")
     ELSE IF OverlappingSlot(req[p].actor, 0, req[p].time)
       THEN Reply(p, "Conflict")
     ELSE Step(p, "createSlot_create", loc[p])
  /\ UNCHANGED <<db, clock, req, reqNo>>

createSlot_create(p) ==
  /\ pc[p] = "createSlot_create"
  /\ CreateSession(NewSlot(req[p].room, req[p].time, req[p].actor))
  /\ Reply(p, "Created")
  /\ UNCHANGED <<cases, history, codes, clock, req, reqNo>>

\* only a booked slot is refused
BookedOnly(row) == row.status = "booked"

\* session.status !== 'available'
NotAvailable(row) == row.status # "available"

updateSlot_find(p) ==
  LET s == req[p].session IN
  /\ pc[p] = "updateSlot_find"
  /\ IF s \notin DOMAIN sessions THEN Reply(p, "NotFound")
     ELSE IF sessions[s].counselorId # req[p].actor THEN Reply(p, "Forbidden")
     ELSE IF NotAvailable(sessions[s]) THEN Reply(p, "BadRequest")
     ELSE IF ~isValidSessionTime(req[p].time) \/ req[p].time < now
       THEN Reply(p, "BadRequest")
     ELSE Step(p, "updateSlot_overlap", loc[p])
  /\ UNCHANGED <<db, clock, req, reqNo>>

updateSlot_overlap(p) ==
  /\ pc[p] = "updateSlot_overlap"
  /\ IF OverlappingSlot(req[p].actor, req[p].session, req[p].time)
       THEN Reply(p, "Conflict")
     ELSE Step(p, "updateSlot_update", loc[p])
  /\ UNCHANGED <<db, clock, req, reqNo>>

updateSlot_update(p) ==
  LET s == req[p].session IN
  /\ pc[p] = "updateSlot_update"
  /\ ~SessionLocked(s, p)
  /\ IF s \in DOMAIN sessions
       THEN /\ sessions' = [sessions EXCEPT ![s].timeStart = req[p].time,
                                            ![s].timeEnd = req[p].time + MinutesPerHour]
            /\ Reply(p, "OK")
       ELSE /\ Reply(p, "Internal")
            /\ UNCHANGED sessions
  /\ UNCHANGED <<sessionSeq, cases, history, codes, clock, req, reqNo>>

deleteSlot_find(p) ==
  LET s == req[p].session IN
  /\ pc[p] = "deleteSlot_find"
  /\ IF s \notin DOMAIN sessions THEN Reply(p, "NotFound")
     ELSE IF sessions[s].counselorId # req[p].actor THEN Reply(p, "Forbidden")
     ELSE IF NotAvailable(sessions[s]) THEN Reply(p, "BadRequest")
     ELSE IF sessions[s].timeStart # NoTime /\ sessions[s].timeStart < now
       THEN Reply(p, "BadRequest")
     ELSE Step(p, "deleteSlot_delete",
               [loc[p] EXCEPT !.status = sessions[s].status,
                              !.counselor = sessions[s].counselorId])
  /\ UNCHANGED <<db, clock, req, reqNo>>

\* SessionHistory_sessionId_fkey ... ON DELETE RESTRICT
NoHistory(s) == FALSE
HasHistory(s) == \E i \in 1..Len(history) : history[i].sessionId = s

deleteSlot_delete(p) ==
  LET s == req[p].session IN
  /\ pc[p] = "deleteSlot_delete"
  /\ ~SessionLocked(s, p)
  /\ IF s \in DOMAIN sessions /\ ~HasHistory(s)
       THEN /\ sessions' = [o \in DOMAIN sessions \ {s} |-> sessions[o]]
            /\ Reply(p, "OK")
       ELSE /\ Reply(p, "Internal")
            /\ UNCHANGED sessions
  /\ UNCHANGED <<sessionSeq, cases, history, codes, clock, req, reqNo>>

\* ------------------------------------------------- cleanupExpiredSessions
\* Bangkok midnight of today as a UTC instant
BangkokOffset == BangkokOffsetHours * MinutesPerHour
bangkokStartOfTodayUtc(t) ==
  (((t + BangkokOffset) \div DayMinutes) * DayMinutes) - BangkokOffset

\* findMany({ where: { timeStart: { lt }, status: { in }, caseId: null } })
Expired(row) ==
  /\ row.timeStart # NoTime
  /\ row.timeStart < bangkokStartOfTodayUtc(now)
  /\ row.status \in {"available", "closed"}
  /\ row.caseId = NoCase

cleanupExpiredSessions_find(p) ==
  LET targets == {s \in DOMAIN sessions : Expired(sessions[s])} IN
  /\ pc[p] = "cleanupExpiredSessions_find"
  /\ IF targets = {}
       THEN Reply(p, "OK")
       ELSE Step(p, "cleanupExpiredSessions_deleteMany",
                 [loc[p] EXCEPT !.targets = targets])
  /\ UNCHANGED <<db, clock, req, reqNo>>

\* deleteMany({ where: { sessionId: { in } } }): one statement; a row that
\* history rows refer to makes it fail as a whole and the function throws
cleanupExpiredSessions_deleteMany(p) ==
  LET found == loc[p].targets \cap DOMAIN sessions IN
  /\ pc[p] = "cleanupExpiredSessions_deleteMany"
  /\ \A s \in found : ~SessionLocked(s, p)
  /\ IF \E s \in found : HasHistory(s)
       THEN /\ Reply(p, "Internal")
            /\ UNCHANGED sessions
       ELSE /\ sessions' = [o \in DOMAIN sessions \ found |-> sessions[o]]
            /\ Reply(p, "OK")
  /\ UNCHANGED <<sessionSeq, cases, history, codes, clock, req, reqNo>>

\* --------------------------------------------------------- specifications
\* the booking controller in service
BookKinds == {"bookSlot", "bookSession"}

BookStep(p) ==
  \/ bookSlot_find(p)
  \/ bookSlot_checkActive(p)
  \/ bookSlot_tx(p)
  \/ bookSession_findCase(p)
  \/ bookSession_createCase(p)
  \/ bookSession_txFind(p)
  \/ bookSession_txLast(p)
  \/ bookSession_txToken(p)
  \/ bookSession_txCount(p)
  \/ bookSession_txReserve(p)
  \/ bookSession_mail(p)

InitBook == InitW(BookKinds, {JuneIndex}, "fresh", Racers, 1)
NextBook == \E p \in Procs : InvokeW(BookKinds, p) \/ BookStep(p)
SpecBook == InitBook /\ [][NextBook]_vars

\* with the first booking controller (controllers/bookingController.ts) beside it
AllBookKinds == BookKinds \cup {"bookSlotV1"}
InitBookAll == InitW(AllBookKinds, {JuneIndex}, "fresh", Racers, 1)
NextBookAll == \E p \in Procs : InvokeW(AllBookKinds, p) \/ BookStep(p) \/ bookSlotV1_tx(p)
SpecBookAll == InitBookAll /\ [][NextBookAll]_vars

CancelKinds == {"cancelBooking", "cancelClientSession", "cancelBookedSlot"}

CancelStep(p) ==
  \/ cancelBooking_find(p)
  \/ cancelBooking_tx(p)
  \/ cancelClientSession_find(p)
  \/ cancelClientSession_update(p)
  \/ cancelClientSession_history(p)
  \/ cancelBookedSlot_find(p)
  \/ cancelBookedSlot_update(p)
  \/ cancelBookedSlot_history(p)

InitCancel == InitW(CancelKinds, {JuneIndex}, "booked", Racers, 1)
NextCancel == Tick \/ \E p \in Procs : InvokeW(CancelKinds, p) \/ CancelStep(p)
SpecCancel == InitCancel /\ [][NextCancel]_vars

\* cancelBooking against the clock: one request per slot
LeadKinds == {"cancelBooking"}

LeadStep(p) ==
  \/ cancelBooking_find(p)
  \/ cancelBooking_tx(p)

InitLead == InitW(LeadKinds, {JuneIndex}, "booked", Racers, MaxReqs)
NextLead == Tick \/ \E p \in Procs : LeadStep(p)
SpecLead == InitLead /\ [][NextLead]_vars

\* get-or-create of the queue token on both paths: one request per slot,
\* all slots in flight
TokenKinds == {"generateQueueToken", "bookSession"}

TokenStep(p) ==
  \/ generateQueueToken_findCase(p)
  \/ generateQueueToken_last(p)
  \/ generateQueueToken_update(p)
  \/ bookSession_findCase(p)
  \/ bookSession_txFind(p)
  \/ bookSession_txLast(p)
  \/ bookSession_txToken(p)
  \/ bookSession_txCount(p)
  \/ bookSession_txReserve(p)
  \/ bookSession_mail(p)

InitToken == InitW(TokenKinds, Months, "waiting", Procs, MaxReqs)
NextToken == \E p \in Procs : TokenStep(p)
SpecToken == InitToken /\ [][NextToken]_vars

\* the same with two slots in flight
InitFetch == InitW(TokenKinds, Months, "waiting", Pair, MaxReqs)
SpecFetch == InitFetch /\ [][NextToken]_vars

\* booking visits of existing cases, releasing them and booking again
VisitKinds == {"bookSession", "cancelClientSession", "cancelBookedSlot"}

VisitStep(p) ==
  \/ bookSession_findCase(p)
  \/ bookSession_txFind(p)
  \/ bookSession_txLast(p)
  \/ bookSession_txToken(p)
  \/ bookSession_txCount(p)
  \/ bookSession_txReserve(p)
  \/ bookSession_mail(p)
  \/ cancelClientSession_find(p)
  \/ cancelClientSession_update(p)
  \/ cancelClientSession_history(p)
  \/ cancelBookedSlot_find(p)
  \/ cancelBookedSlot_update(p)
  \/ cancelBookedSlot_history(p)

\* three requests, one to a slot: a booking, a release and a second booking
Trio == {1, 2, 3}
InitVisit == InitW(VisitKinds, {JuneIndex}, "waiting", Trio, MaxReqs)
NextVisit == \E p \in Procs : VisitStep(p)
SpecVisit == InitVisit /\ [][NextVisit]_vars

Solo == {1}

\* status changes by two counselors at once, on cases booked through the
\* first booking controller
StatusKinds == {"updateAppointmentStatus"}

StatusStep(p) ==
  \/ updateAppointmentStatus_validate(p)
  \/ updateAppointmentStatus_txFind(p)
  \/ updateAppointmentStatus_txUpdate(p)
  \/ updateAppointmentStatus_txRelease(p)
  \/ updateAppointmentStatus_txCommit(p)
  \/ updateAppointmentStatus_notify(p)

InitTransition == InitW(StatusKinds, {JuneIndex}, "legacy", Pair, MaxReqs)
NextTransition == \E p \in Procs : StatusStep(p)
SpecTransition == InitTransition /\ [][NextTransition]_vars

\* status changes one after the other while the clock moves
InitReconfirm == InitW(StatusKinds, {JuneIndex}, "visited", Solo, 1)
NextReconfirm == Tick \/ \E p \in Procs : InvokeW(StatusKinds, p) \/ StatusStep(p)
SpecReconfirm == InitReconfirm /\ [][NextReconfirm]_vars

\* status changes while the client of the case books another visit, and
\* while the clock moves
LifecycleKinds == {"updateAppointmentStatus", "bookSession"}

LifecycleStep(p) ==
  \/ StatusStep(p)
  \/ bookSession_findCase(p)
  \/ bookSession_createCase(p)
  \/ bookSession_txFind(p)
  \/ bookSession_txLast(p)
  \/ bookSession_txToken(p)
  \/ bookSession_txCount(p)
  \/ bookSession_txReserve(p)
  \/ bookSession_mail(p)

InitLifecycle == InitW(LifecycleKinds, {JuneIndex}, "visited", Pair, MaxReqs)
NextLifecycle == Tick \/ \E p \in Procs : LifecycleStep(p)
SpecLifecycle == InitLifecycle /\ [][NextLifecycle]_vars

\* the same requests with the clock held still
NextNotify == \E p \in Procs : LifecycleStep(p)
SpecNotify == InitLifecycle /\ [][NextNotify]_vars

\* a counselor's note edits, one after the other, on sessions booked through
\* the first booking controller
NoteKinds == {"editCaseNote", "updateCaseNote"}

NoteStep(p) ==
  \/ editCaseNote_txFind(p)
  \/ editCaseNote_tx(p)
  \/ updateCaseNote_find(p)
  \/ updateCaseNote_update(p)
  \/ updateCaseNote_history(p)

InitNote == InitW(NoteKinds, {JuneIndex}, "legacy", Solo, 1)
NextNote == \E p \in Procs : InvokeW(NoteKinds, p) \/ NoteStep(p)
SpecNote == InitNote /\ [][NextNote]_vars

\* the same one request after the other: a single slot carries them all
InitSeq == InitW(TokenKinds, Months, "waiting", Solo, 1)
NextSeq == \E p \in Procs : InvokeW(TokenKinds, p) \/ TokenStep(p)
SpecSeq == InitSeq /\ [][NextSeq]_vars

\* redeeming registration codes and fetching the token of the new case
CodeKinds == {"verifyCodeAndCreateCase", "generateQueueToken"}

CodeStep(p) ==
  \/ verifyCodeAndCreateCase_find(p)
  \/ verifyCodeAndCreateCase_tx(p)
  \/ generateQueueToken_findCase(p)
  \/ generateQueueToken_last(p)
  \/ generateQueueToken_update(p)

InitCode == InitW(CodeKinds, Months, "fresh", Racers, 1)
NextCode == \E p \in Procs : InvokeW(CodeKinds, p) \/ CodeStep(p)
SpecCode == InitCode /\ [][NextCode]_vars

\* the counselor's side: case notes, slot toggles, portal cancels
PortalKinds == {"updateCaseNote", "toggleSlot", "cancelBookedSlot"}

PortalStep(p) ==
  \/ updateCaseNote_find(p)
  \/ updateCaseNote_update(p)
  \/ updateCaseNote_history(p)
  \/ toggleSlot_find(p)
  \/ toggleSlot_create(p)
  \/ toggleSlot_update(p)
  \/ toggleSlot_history(p)
  \/ cancelBookedSlot_find(p)
  \/ cancelBookedSlot_update(p)
  \/ cancelBookedSlot_history(p)

InitPortal == InitW(PortalKinds, {JuneIndex}, "booked", Racers, 1)
NextPortal == \E p \in Procs : InvokeW(PortalKinds, p) \/ PortalStep(p)
SpecPortal == InitPortal /\ [][NextPortal]_vars

\* the counselors' slot management: toggles, created and moved slots
SlotKinds == {"toggleSlot", "createSlot", "updateSlot"}

SlotStep(p) ==
  \/ toggleSlot_find(p)
  \/ toggleSlot_create(p)
  \/ toggleSlot_update(p)
  \/ toggleSlot_history(p)
  \/ createSlot_overlap(p)
  \/ createSlot_create(p)
  \/ updateSlot_find(p)
  \/ updateSlot_overlap(p)
  \/ updateSlot_update(p)

InitSlot == InitW(SlotKinds, {JuneIndex}, "roster", Pair, MaxReqs)
NextSlot == \E p \in Procs : SlotStep(p)
SpecSlot == InitSlot /\ [][NextSlot]_vars

\* slots are created and moved beside a session of any length
OverlapKinds == {"createSlot", "updateSlot"}
OverlapStep(p) ==
  \/ createSlot_overlap(p)
  \/ createSlot_create(p)
  \/ updateSlot_find(p)
  \/ updateSlot_overlap(p)
  \/ updateSlot_update(p)
InitOverlap == InitW(OverlapKinds, {JuneIndex}, "intervals", Solo, MaxReqs)
NextOverlap == \E p \in Procs : OverlapStep(p)
SpecOverlap == InitOverlap /\ [][NextOverlap]_vars

\* one counselor request after the other
InitRoster == InitW(SlotKinds, {JuneIndex}, "roster", Solo, 1)
NextRoster == \E p \in Procs : InvokeW(SlotKinds, p) \/ SlotStep(p)
SpecRoster == InitRoster /\ [][NextRoster]_vars

\* a counselor closes sessions with their notes, clients cancel, one
\* request after the other
CloseKinds == {"updateCaseNote", "cancelBooking", "cancelClientSession"}

CloseStep(p) ==
  \/ updateCaseNote_find(p)
  \/ updateCaseNote_update(p)
  \/ updateCaseNote_history(p)
  \/ cancelBooking_find(p)
  \/ cancelBooking_tx(p)
  \/ cancelClientSession_find(p)
  \/ cancelClientSession_update(p)
  \/ cancelClientSession_history(p)

InitClose == InitW(CloseKinds, {JuneIndex}, "legacy", Solo, 1)
NextClose == \E p \in Procs : InvokeW(CloseKinds, p) \/ CloseStep(p)
SpecClose == InitClose /\ [][NextClose]_vars

\* bookings by date and time while counselors create slots
ResolveKinds == {"bookSlotByTime", "createSlot"}

ResolveStep(p) ==
  \/ bookSlot_resolve(p)
  \/ bookSlot_checkActive(p)
  \/ bookSlot_tx(p)
  \/ createSlot_overlap(p)
  \/ createSlot_create(p)

InitResolve == InitW(ResolveKinds, {JuneIndex}, "shared", Pair, MaxReqs)
NextResolve == \E p \in Procs : ResolveStep(p)
SpecResolve == InitResolve /\ [][NextResolve]_vars

\* slots are deleted while the portal toggles them
DeleteKinds == {"deleteSlot", "toggleSlot"}

DeleteStep(p) ==
  \/ deleteSlot_find(p)
  \/ deleteSlot_delete(p)
  \/ toggleSlot_find(p)
  \/ toggleSlot_create(p)
  \/ toggleSlot_update(p)
  \/ toggleSlot_history(p)

InitDelete == InitW(DeleteKinds, {JuneIndex}, "fresh", Pair, MaxReqs)
NextDelete == Tick \/ \E p \in Procs : DeleteStep(p)
SpecDelete == InitDelete /\ [][NextDelete]_vars

\* a booking while the counselors toggle and delete slots
HoldKinds == {"bookSession", "toggleSlot", "deleteSlot"}
HoldStep(p) ==
  \/ bookSession_findCase(p)
  \/ bookSession_createCase(p)
  \/ bookSession_txFind(p)
  \/ bookSession_txLast(p)
  \/ bookSession_txToken(p)
  \/ bookSession_txCount(p)
  \/ bookSession_txReserve(p)
  \/ bookSession_mail(p)
  \/ DeleteStep(p)
InitHold == InitW(HoldKinds, {JuneIndex}, "fresh", Pair, MaxReqs)
NextHold == \E p \in Procs : HoldStep(p)
SpecHold == InitHold /\ [][NextHold]_vars

\* clients cancel their bookings while released sessions are booked again
RebookKinds == {"cancelBooking", "cancelClientSession", "bookSession"}
RebookStep(p) ==
  \/ cancelBooking_find(p)
  \/ cancelBooking_tx(p)
  \/ cancelClientSession_find(p)
  \/ cancelClientSession_update(p)
  \/ cancelClientSession_history(p)
  \/ bookSession_findCase(p)
  \/ bookSession_txFind(p)
  \/ bookSession_txLast(p)
  \/ bookSession_txToken(p)
  \/ bookSession_txCount(p)
  \/ bookSession_txReserve(p)
  \/ bookSession_mail(p)
InitRebook == InitW(RebookKinds, {JuneIndex}, "booked", Pair, 1)
NextRebook == \E p \in Procs : InvokeW(RebookKinds, p) \/ RebookStep(p)
SpecRebook == InitRebook /\ [][NextRebook]_vars

\* one client after the other: bookings are cancelled and booked again
ReturnKinds == BookKinds \cup CancelKinds
InitReturn == InitW(ReturnKinds, {JuneIndex}, "visited", Solo, 1)
NextReturn == \E p \in Procs : InvokeW(ReturnKinds, p) \/ BookStep(p) \/ CancelStep(p)
SpecReturn == InitReturn /\ [][NextReturn]_vars

\* slots of the day before are cleaned up while their counselor deletes them
ExpireKinds == {"cleanupExpiredSessions", "deleteSlot"}
ExpireStep(p) ==
  \/ cleanupExpiredSessions_find(p)
  \/ cleanupExpiredSessions_deleteMany(p)
  \/ deleteSlot_find(p)
  \/ deleteSlot_delete(p)
InitExpire == InitW(ExpireKinds, {JuneIndex}, "stale", Pair, 1)
NextExpire == Tick \/ \E p \in Procs : InvokeW(ExpireKinds, p) \/ ExpireStep(p)
SpecExpire == InitExpire /\ [][NextExpire]_vars

\* every handler, from empty tables
Init == InitW(AllKinds, Months, "fresh", Racers, 1)
\* the handlers that look their session up by the sessionId of the request
SessionKeyed ==
  ClientSessionKinds \cup {"updateCaseNote", "editCaseNote", "cancelBookedSlot"}
Present(p) ==
  (req[p].kind \in SessionKeyed /\ pc[p] # "bookSession_mail")
    => req[p].session \in DOMAIN sessions

\* The session of the request has been deleted: the lookup finds nothing
\* (404), a later statement on the row throws (500).
sessionGone(p) ==
  /\ pc[p] # "done"
  /\ ~Present(p)
  /\ Reply(p, IF pc[p] = EntryOf(req[p].kind) THEN "NotFound" ELSE "Internal")
  /\ UNCHANGED <<db, clock, req, reqNo>>

\* notes are edited on slots that their counselor deletes
AuditKinds == {"editCaseNote", "updateCaseNote", "deleteSlot"}
InitAudit == InitW(AuditKinds, {JuneIndex}, "fresh", Pair, MaxReqs)
NextAudit ==
  \E p \in Procs :
    \/ Present(p) /\ NoteStep(p)
    \/ deleteSlot_find(p)
    \/ deleteSlot_delete(p)
    \/ sessionGone(p)
SpecAudit == InitAudit /\ [][NextAudit]_vars

Next ==
  \/ Tick
  \/ \E p \in Procs :
       \/ InvokeW(AllKinds, p)
       \/ Present(p) /\ BookStep(p)
       \/ Present(p) /\ bookSlotV1_tx(p)
       \/ Present(p) /\ CancelStep(p)
       \/ CodeStep(p)
       \/ Present(p) /\ PortalStep(p)
       \/ Present(p) /\ editCaseNote_txFind(p)
       \/ Present(p) /\ editCaseNote_tx(p)
       \/ StatusStep(p)
       \/ sessionGone(p)
       \/ bookSlot_resolve(p)
       \/ SlotStep(p)
       \/ deleteSlot_find(p)
       \/ deleteSlot_delete(p)
       \/ cleanupExpiredSessions_find(p)
       \/ cleanupExpiredSessions_deleteMany(p)
Spec == Init /\ [][Next]_vars

\* -------------------------------------------------------------- properties
Done(p) == pc[p] = "done"

\* the requests a slot issued first: they are in flight together
Racing(K, s) == {p \in Procs : reqNo[p] = 1 /\ req[p].kind \in K /\ req[p].session = s}

\* C1: of the Book requests (bookSession, bookSlot) that race for one available
\* session exactly one succeeds, every other one answers Conflict, and the
\* session ends booked and attached to the winner's case.
C1_NoDoubleBooking ==
  \A s \in Sessions :
    LET R == Racing({"bookSlot", "bookSession"}, s) IN
    (Cardinality(R) >= 2 /\ \A p \in R : Done(p)) =>
      \E w \in R :
        /\ resp[w].code = "OK"
        /\ \A p \in R \ {w} : resp[p].code = "Conflict"
        /\ sessions[s].status = "booked"
        /\ sessions[s].caseId = resp[w].caseId

BookActions == {"booking_created", "CLIENT_BOOKED"}

\* C2: no session is booked without a case, and every session a Book attached
\* to a case has a booking audit record (booking_created or CLIENT_BOOKED).
C2_BookingAtomicity ==
  \A s \in Sessions :
    /\ sessions[s].status = "booked" => sessions[s].caseId # NoCase
    /\ sessions[s].caseId # NoCase =>
         \E i \in 1..Len(history) :
           history[i].sessionId = s /\ history[i].action \in BookActions

\* upcoming booked sessions held by the client's non-cancelled cases
ActiveBookings(client) ==
  {s \in Sessions : /\ sessions[s].status = "booked"
                    /\ sessions[s].caseId # NoCase
                    /\ sessions[s].timeStart >= now
                    /\ cases[sessions[s].caseId].clientId = client
                    /\ cases[sessions[s].caseId].status # "cancelled"}

\* C5: a client never holds more than one active booking (an upcoming booked
\* session attached to a non-cancelled case), whichever Book path is used.
C5_OneActiveBooking ==
  \A client \in Clients : Cardinality(ActiveBookings(client)) <= 1

\* slot p's request completes in this step
Completes(p) == pc[p] # "done" /\ pc'[p] = "done"

\* C3: when a cancel of a booked session succeeds (cancelBooking,
\* cancelClientSession or cancelBookedSlot) the session is available with no
\* case, the case that held it is cancelled, and the session has exactly one
\* cancellation audit record more than when the request read it.
C3_CancelAtomicity ==
  [][\A p \in Procs :
       (req[p].kind \in CancelKinds /\ Completes(p) /\ resp'[p].code = "OK") =>
         LET s == req[p].session IN
         /\ sessions'[s].status = "available"
         /\ sessions'[s].caseId = NoCase
         /\ cases'[loc[p].caseId].status = "cancelled"
         /\ CancelAudits(history', s) = loc[p].audits + 1]_vars

ClientCancelKinds == {"cancelBooking", "cancelClientSession"}

\* C9: no client cancel (cancelBooking, cancelClientSession) succeeds when
\* fewer than 24 hours remained at the time the request read the session;
\* such a request is refused and leaves the session booked with its case.
C9_NoLateClientCancel ==
  [][\A p \in Procs :
       LET s == req[p].session
           lead == sessions[s].timeStart - now
       IN
       /\ (req[p].kind \in ClientCancelKinds /\ Completes(p) /\ resp'[p].code = "OK") =>
            loc[p].lead >= LeadHours * MinutesPerHour
       /\ (/\ pc[p] \in {"cancelBooking_find", "cancelClientSession_find"}
           /\ pc'[p] # pc[p]
           /\ OwnedBy(s, req[p].client)
           /\ lead < LeadHours * MinutesPerHour) =>
            /\ pc'[p] = "done"
            /\ resp'[p].code # "OK"
            /\ sessions' = sessions]_vars

\* slot p has answered a get-or-create call with a queue token it generated
Generated(p) == Done(p) /\ resp[p].code = "OK" /\ resp[p].priority

\* C4: no two distinct cases hold the same queue token, and two get-or-create
\* calls for different cases never both succeed with the same token of
\* sequence 1.
C4_TokenUniqueness ==
  /\ \A c, d \in CaseIds :
       (c # d /\ cases[c].queueToken # NoToken) =>
         cases[c].queueToken # cases[d].queueToken
  /\ \A p, q \in Procs :
       (Generated(p) /\ Generated(q) /\ resp[p].caseId # resp[q].caseId) =>
         ~(SeqOf(resp[p].token) = 1 /\ resp[q].token = resp[p].token)

\* slots whose redemption of registration code k was answered with success
Redeemers(k) ==
  {p \in Procs : /\ Done(p)
                 /\ req[p].kind = "verifyCodeAndCreateCase"
                 /\ req[p].code = k
                 /\ resp[p].code = "OK"}

\* C6: of the verifyCodeAndCreateCase requests that present one code at most
\* one creates a case and marks the code used; there are never more cases
\* than used codes.
C6_CodeOnce ==
  /\ \A k \in Codes : Cardinality(Redeemers(k)) <= 1
  /\ Len(cases) <= Cardinality({k \in Codes : codes[k]})

\* C10: a get-or-create call that finds a queue token on the case returns
\* that token and writes nothing, on both paths (generateQueueToken and
\* getOrGenerateQueueToken inside bookSession); a call that generates a
\* token returns the token it stored, so the next call in sequence returns
\* the identical value.
C10_IdempotentFetch ==
  [][\A p \in Procs :
       LET w == WaitingCase(req[p].client) IN
       /\ (/\ pc[p] = "generateQueueToken_findCase"
           /\ pc'[p] # pc[p]
           /\ w # NoCase
           /\ cases[w].queueToken # NoToken) =>
            /\ pc'[p] = "done"
            /\ resp'[p].code = "OK"
            /\ resp'[p].token = cases[w].queueToken
            /\ db' = db
       /\ (pc[p] = "generateQueueToken_update" /\ Completes(p) /\ resp'[p].code = "OK") =>
            cases'[loc[p].caseId].queueToken = resp'[p].token
       /\ (/\ pc[p] = "bookSession_txFind"
           /\ pc'[p] # pc[p]
           /\ cases[loc[p].caseId].queueToken # NoToken) =>
            /\ loc'[p].token = cases[loc[p].caseId].queueToken
            /\ loc'[p].pending = NoToken
            /\ db' = db
       /\ (InTx(p) /\ loc[p].pending = NoToken /\ pc'[p] # pc[p]) =>
            cases' = cases]_vars

\* C10 witness: one slot generated a token for a case, another slot then
\* fetched the token of the same case and got the identical value, which the
\* case still holds.
C10_Witness ==
  \E p, q \in Procs :
    /\ Generated(p)
    /\ Done(q) /\ req[q].kind = "generateQueueToken"
    /\ resp[q].code = "OK" /\ ~resp[q].priority
    /\ resp[q].caseId = resp[p].caseId
    /\ resp[q].token = resp[p].token
    /\ resp[q].token # NoToken
    /\ cases[resp[q].caseId].queueToken = resp[q].token

\* C7: for every session, status = booked exactly when its case reference is
\* set, whatever operation ran (note completion, toggle, any cancel, Book).
C7_BookedIffCase ==
  \A s \in Sessions : (sessions[s].status = "booked") <=> (sessions[s].caseId # NoCase)

\* C11: once a case holds a queue token no step changes or clears it, so the
\* token a caller was given is the token the case keeps.
C11_TokenAssignedOnce ==
  [][\A c \in CaseIds :
       cases[c].queueToken # NoToken =>
         cases'[c].queueToken = cases[c].queueToken]_vars

\* cases that hold a queue token of the given prefix
Holders(table, prefix) ==
  {c \in 1..Len(table) : /\ table[c].queueToken # NoToken
                         /\ table[c].queueToken \div SeqWidth = prefix}

\* C12: when requests do not overlap, the k-th case to receive a queue token
\* of a prefix gets sequence number k: the numbers of a prefix start at 1,
\* increase by one and leave no gap.
C12_SequentialNumbering ==
  [][\A c \in CaseIds :
       (cases[c].queueToken = NoToken /\ cases'[c].queueToken # NoToken) =>
         LET t == cases'[c].queueToken IN
         /\ t % SeqWidth = Cardinality(Holders(cases, t \div SeqWidth)) + 1
         /\ {cases'[d].queueToken % SeqWidth : d \in Holders(cases', t \div SeqWidth)}
              = 1..Cardinality(Holders(cases', t \div SeqWidth))]_vars

\* C12 witness: two cases hold the tokens 1 and 2 of one prefix, given in
\* that order by two requests of the one slot.
C12_Witness ==
  \E c, d \in CaseIds :
    /\ cases[c].queueToken # NoToken /\ cases[d].queueToken # NoToken
    /\ cases[c].queueToken % SeqWidth = 1
    /\ cases[d].queueToken = cases[c].queueToken + 1
    /\ reqNo[1] = 2 /\ Done(1)

\* C13: every step that writes a queue token, from either generation path,
\* writes the academic-year prefix of the current date: the last two digits
\* of the Buddhist year, one less before June (68 in May 2026, 69 in June).
C13_AcademicYearPrefix ==
  [][\A c \in CaseIds :
       cases'[c].queueToken # cases[c].queueToken =>
         cases'[c].queueToken \div SeqWidth = AcademicYearPrefix(Year, month)]_vars

RowsOf(h, s) == SelectSeq(h, LAMBDA r : r.sessionId = s)

\* C15: the audit trail only grows. Each successful note edit adds exactly one
\* history row to its session, so k edits in a row leave k rows; no step
\* changes or removes a row; the history query lists the rows newest first.
C15_AuditTrailGrowsOnly ==
  [][/\ Len(history') >= Len(history)
     /\ \A i \in 1..Len(history) : history'[i] = history[i]
     /\ \A p \in Procs :
          IF req[p].kind \in NoteKinds /\ Completes(p) /\ resp'[p].code = "OK"
            THEN \A s \in Sessions :
                   Len(RowsOf(history', s)) =
                     Len(RowsOf(history, s)) + (IF s = req[p].session THEN 1 ELSE 0)
            ELSE pc'[p] # pc[p] => history' = history
     /\ \A c \in CaseIds :
          /\ Len(getCaseHistory(c)') = Cardinality(HistoryIds(c)')
          /\ \A m, n \in 1..Len(getCaseHistory(c)') :
               m < n => getCaseHistory(c)'[m].id > getCaseHistory(c)'[n].id]_vars

\* C15 witness: two edits of session 1, one after the other, have left two
\* rows; the query on its case lists the second edit first.
C15_Witness ==
  /\ reqNo[1] = 2 /\ Done(1) /\ resp[1].code = "OK"
  /\ Len(RowsOf(history, 1)) = 2
  /\ Len(getCaseHistory(1)) = 2
  /\ getCaseHistory(1)[1].id = 2
  /\ getCaseHistory(1)[1].details[1] = getCaseHistory(1)[2].details[2]

\* C16: a Book request that loses the reservation answers Conflict and leaves
\* the tables as they were before it: in particular it has created no case.
\* Stated for the first requests of the slots, on tables that start without
\* cases, and for a client no other request acts for.
C16_LoserLeavesNoTrace ==
  \A p \in Racers :
    ( /\ \A q \in Racers : reqNo[q] = 1
      /\ req[p].kind \in BookKinds
      /\ Done(p) /\ resp[p].code = "Conflict"
      /\ \A q \in Racers \ {p} : req[q].client # req[p].client )
    => CasesOf(req[p].client) = {}

\* a status change of slot p commits with the answer OK
Transitions(p) ==
  /\ req[p].kind = "updateAppointmentStatus"
  /\ pc[p] = "updateAppointmentStatus_txCommit"
  /\ pc'[p] # pc[p]

\* C17: when a status change to cancelled commits, every session linked to
\* the case is available with no case, so no session refers to the cancelled
\* case; a status change that fails changes neither cases nor sessions.
C17_CancelledCaseHoldsNoSession ==
  [][\A p \in Procs :
       /\ (Transitions(p) /\ req[p].status = "cancelled") =>
            \A s \in Sessions :
              /\ sessions'[s].caseId # req[p].caseId
              /\ sessions[s].caseId = req[p].caseId =>
                   /\ sessions'[s].status = "available"
                   /\ sessions'[s].caseId = NoCase
       /\ (req[p].kind = "updateAppointmentStatus" /\ Completes(p)
             /\ resp'[p].code # "OK") =>
            cases' = cases /\ sessions' = sessions]_vars

\* C18: a status change that commits appends exactly one audit row to every
\* session of the case, and the row records the status the case had, the new
\* status and the reason; a rejected status change appends no row.
C18_OneAuditPerSession ==
  [][\A p \in Procs :
       /\ Transitions(p) =>
            \A s \in Sessions :
              sessions[s].caseId = req[p].caseId =>
                /\ Len(RowsOf(history', s)) = Len(RowsOf(history, s)) + 1
                /\ RowsOf(history', s)[Len(RowsOf(history', s))] =
                     AuditRow(s, "appointment_status_updated",
                              <<cases[req[p].caseId].status, req[p].status,
                                req[p].reason>>)
       /\ (req[p].kind = "updateAppointmentStatus" /\ Completes(p)
             /\ resp'[p].code # "OK") =>
            history' = history]_vars

\* C19: confirmedAt is set once. A status change to confirmed sets it only
\* when the case has none, so a second confirmation keeps the first value, and
\* a change to another status never sets or changes it.
C19_ConfirmedAtSetOnce ==
  [][\A c \in CaseIds :
       /\ cases[c].confirmedAt # NoTime =>
            cases'[c].confirmedAt = cases[c].confirmedAt
       /\ cases'[c].confirmedAt # cases[c].confirmedAt =>
            \E p \in Procs :
              Transitions(p) /\ req[p].caseId = c /\ req[p].status = "confirmed"]_vars

\* a status change whose actor is not the counselor the case is assigned to
ForeignCase(p) ==
  /\ req[p].caseId \in CaseIds
  /\ cases[req[p].caseId].counselorId # NoCounselor
  /\ cases[req[p].caseId].counselorId # req[p].actor

\* C20: a status change that meets a case assigned to another counselor is
\* answered Forbidden, one that meets no case is answered NotFound, and in
\* both cases, as in every rejection, no case, session or history row changes.
C20_RejectedTransitionChangesNothing ==
  [][\A p \in Procs :
       /\ (pc[p] = "updateAppointmentStatus_txFind" /\ pc'[p] # pc[p]) =>
            /\ req[p].caseId \notin CaseIds =>
                 Completes(p) /\ resp'[p].code = "NotFound"
            /\ ForeignCase(p) => Completes(p) /\ resp'[p].code = "Forbidden"
       /\ (req[p].kind = "updateAppointmentStatus" /\ Completes(p)
             /\ resp'[p].code # "OK") =>
            /\ resp'[p].code \in {"NotFound", "Forbidden", "BadRequest"}
            /\ cases' = cases /\ sessions' = sessions /\ history' = history]_vars

\* C20 witness: a status change of a case that does not exist was answered
\* NotFound, and one by a counselor the case is not assigned to, Forbidden.
C20_Witness ==
  \E p, q \in Procs :
    /\ Done(p) /\ Done(q)
    /\ req[p].kind = "updateAppointmentStatus" /\ req[q].kind = "updateAppointmentStatus"
    /\ req[p].caseId \notin CaseIds /\ resp[p].code = "NotFound"
    /\ req[q].caseId \in CaseIds /\ resp[q].code = "Forbidden"
    /\ cases[req[q].caseId].counselorId # req[q].actor

\* the edges of the case lifecycle
LifecycleEdges ==
  ({"waiting_confirmation"} \X {"confirmed", "rescheduled", "cancelled"})
    \cup ({"booked", "confirmed"} \X {"completed", "cancelled"})

\* C21: every change of a case's status is an edge of the lifecycle, and a
\* case that is cancelled or completed keeps its status.
C21_LifecycleGraph ==
  [][\A c \in CaseIds :
       cases'[c].status # cases[c].status =>
         /\ <<cases[c].status, cases'[c].status>> \in LifecycleEdges
         /\ cases[c].status \notin {"cancelled", "completed"}]_vars

\* C22: no booking links a session to a cancelled case: whenever a step
\* attaches a session to a case, that case is not cancelled.
C22_NoBookingOnCancelledCase ==
  [][\A s \in Sessions :
       (sessions'[s].caseId # NoCase /\ sessions'[s].caseId # sessions[s].caseId) =>
         /\ sessions'[s].caseId \in CaseIds =>
              cases[sessions'[s].caseId].status # "cancelled"
         /\ cases'[sessions'[s].caseId].status # "cancelled"]_vars

\* C23: in every reachable state at most one session holds a given room and
\* start time.
C23_RoomTimeUnique ==
  \A a, b \in DOMAIN sessions :
    (a # b /\ sessions[a].roomId # NoRoom /\ sessions[a].roomId = sessions[b].roomId) =>
      sessions[a].timeStart # sessions[b].timeStart

\* C24: no counselor owns two sessions whose intervals [start, end) overlap,
\* whatever createSlot and updateSlot requests run, one after the other or
\* at the same time.
C24_NoCounselorOverlap ==
  \A a, b \in DOMAIN sessions :
    (a # b /\ sessions[a].counselorId # NoCounselor
           /\ sessions[a].counselorId = sessions[b].counselorId) =>
      ~(sessions[a].timeStart < sessions[b].timeEnd
          /\ sessions[a].timeEnd > sessions[b].timeStart)

\* the changes of status a toggle may make
ToggleFlips == {<<"available", "closed">>, <<"closed", "available">>}

\* C25: a toggle of an existing session only flips it between available and
\* closed: whatever row the update of a toggle changes goes from one of the
\* two to the other, and a session in any other status stays as it is.
C25_ToggleFlipsOnly ==
  [][\A p \in Procs :
       (pc[p] = "toggleSlot_update" /\ pc'[p] # pc[p]) =>
         \A s \in DOMAIN sessions :
           sessions'[s] # sessions[s] =>
             <<sessions[s].status, sessions'[s].status>> \in ToggleFlips]_vars

Matching(r) ==
  {s \in DOMAIN sessions :
     /\ sessions[s].status = "available"
     /\ sessions[s].timeStart = (r.day * DayMinutes) + (r.hour * MinutesPerHour) + r.minute
     /\ r.counselorId # NoCounselor => sessions[s].counselorId = r.counselorId
     /\ r.counselorName # NoCounselor => sessions[s].counselorId = r.counselorName}

\* C27: a booking without sessionId is answered NotFound when no available
\* session matches its date, time and counselor, Conflict when more than one
\* does, and goes on with the one session when exactly one does; only that
\* session is ever reserved, and a booking that fails changes no table.
C27_ResolveExactlyOne ==
  [][\A p \in Procs :
       /\ (pc[p] = "bookSlot_resolve" /\ pc'[p] # pc[p] /\ req[p].hour < HoursPerDay) =>
            /\ Matching(req[p]) = {} <=> resp'[p].code = "NotFound"
            /\ Cardinality(Matching(req[p])) > 1 <=> resp'[p].code = "Conflict"
            /\ Cardinality(Matching(req[p])) = 1 <=>
                 (pc'[p] = "bookSlot_checkActive" /\ Matching(req[p]) = {loc'[p].session})
       /\ (req[p].kind = "bookSlotByTime" /\ pc'[p] # pc[p]) =>
            /\ (Completes(p) /\ resp'[p].code # "OK") =>
                 (sessions' = sessions /\ cases' = cases /\ history' = history)
            /\ \A s \in DOMAIN sessions :
                 sessions'[s] # sessions[s] =>
                   /\ s = loc[p].session /\ resp'[p].code = "OK"
                   /\ sessions'[s].status = "booked"]_vars

\* a booking by date and time was refused as ambiguous, another one that
\* also named the counselor has reserved its session
C27_Witness ==
  \E p, q \in Procs :
    /\ req[p].kind = "bookSlotByTime" /\ Done(p) /\ resp[p].code = "OK"
    /\ \E s \in DOMAIN sessions :
         /\ sessions[s].caseId = resp[p].caseId /\ sessions[s].status = "booked"
         /\ sessions[s].counselorId = req[p].counselorId
         /\ formatTime(sessions[s].timeStart) = <<req[p].hour, req[p].minute>>
    /\ req[q].kind = "bookSlotByTime" /\ Done(q) /\ resp[q].code = "Conflict"

\* the actor of a cancel owns the booking: the client of the session's case,
\* or the counselor of the session
OwnsBooking(p) ==
  LET s == req[p].session IN
  IF req[p].kind = "cancelBookedSlot"
    THEN sessions[s].counselorId = req[p].actor
    ELSE sessions[s].caseId # NoCase /\ cases[sessions[s].caseId].clientId = req[p].client

\* C28: a cancel succeeds only for an actor who owns the booking; a cancel of
\* a booked session by any other actor changes no table and is answered
\* Forbidden.
C28_CancelOnlyByOwner ==
  [][\A p \in Procs :
       (req[p].kind \in CancelKinds /\ pc[p] = EntryOf(req[p].kind)
          /\ pc'[p] # pc[p] /\ IsBooked(req[p].session) /\ ~OwnsBooking(p)) =>
         /\ pc'[p] = "done" /\ resp'[p].code = "Forbidden"
         /\ sessions' = sessions /\ cases' = cases /\ history' = history]_vars

\* C29: a cancel of a session that is not booked when the handler looks it up
\* is answered Conflict and changes no table; no cancel that fails, a second
\* cancel of the same booking among them, adds a history row.
C29_CancelNeedsBooked ==
  [][\A p \in Procs :
       /\ (req[p].kind \in CancelKinds /\ pc[p] = EntryOf(req[p].kind)
             /\ pc'[p] # pc[p] /\ sessions[req[p].session].status # "booked") =>
            /\ pc'[p] = "done" /\ resp'[p].code = "Conflict"
            /\ sessions' = sessions /\ cases' = cases /\ history' = history
       /\ (req[p].kind \in CancelKinds /\ Completes(p) /\ resp'[p].code # "OK") =>
            history' = history]_vars

\* C30: every cancellation path releases the slot completely: a session
\* that a cancel, or a transition to cancelled, takes off its case is
\* available afterwards and its counselor note is cleared.
C30_ReleaseClearsSlot ==
  [][\A p \in Procs :
       (req[p].kind \in CancelKinds \cup {"updateAppointmentStatus"} /\ pc'[p] # pc[p]) =>
         \A s \in DOMAIN sessions :
           (sessions[s].caseId # NoCase /\ sessions'[s].caseId = NoCase) =>
             /\ sessions'[s].status = "available"
             /\ sessions'[s].note = 0]_vars

\* the steps that attempt a notification
NotifySteps == {"bookSession_mail", "updateAppointmentStatus_notify"}

\* C31: the booking mail and the status-change notification are attempted
\* only after the transaction has committed (the step that reaches the
\* attempt is the one that wrote the booking or the new case status), only a
\* request that went through that step reports a notification, and the
\* attempt, failed or not, changes no table and answers OK.
C31_NotifyAfterCommit ==
  [][\A p \in Procs :
       /\ (pc'[p] = "bookSession_mail" /\ pc[p] # pc'[p]) =>
            /\ sessions'[req[p].session].status = "booked"
            /\ sessions'[req[p].session].caseId = loc'[p].caseId
            /\ history' # history
       /\ (pc'[p] = "updateAppointmentStatus_notify" /\ pc[p] # pc'[p]) =>
            cases'[req[p].caseId].status = req[p].status
       /\ (pc[p] \in NotifySteps /\ pc'[p] # pc[p]) =>
            /\ db' = db
            /\ Completes(p)
            /\ resp'[p].code = "OK"
       /\ (Completes(p) /\ resp'[p].notification # "none") =>
            pc[p] \in NotifySteps]_vars

\* a booking whose mail was rejected and a status change whose webhook
\* failed have both answered OK, the booking and the new status in place
C31_Witness ==
  \E p, q \in Procs :
    /\ Done(p) /\ req[p].kind = "bookSession"
    /\ resp[p].code = "OK" /\ resp[p].notification = "mailError"
    /\ sessions[req[p].session].status = "booked"
    /\ sessions[req[p].session].caseId = resp[p].caseId
    /\ Done(q) /\ req[q].kind = "updateAppointmentStatus"
    /\ resp[q].code = "OK" /\ resp[q].notification = "fallback"
    /\ cases[req[q].caseId].status = req[q].status

\* str is word in some letter case between blanks
SameLetter(a, b) == a = b \/ \E i \in DOMAIN Uppers : Uppers[i] = a /\ Lowers[i] = b
Writes(str, word) ==
  \E i, j \in DOMAIN str :
    /\ j - i + 1 = Len(Spell(word))
    /\ \A k \in i..j : SameLetter(str[k], Spell(word)[k - i + 1])
    /\ \A k \in DOMAIN str : (k < i \/ k > j) => str[k] \in Blanks
Meant(str) ==
  IF Writes(str, "postponed") THEN "rescheduled"
  ELSE IF \E w \in TargetStatuses : Writes(str, w)
    THEN CHOOSE w \in TargetStatuses : Writes(str, w)
  ELSE "rejected"

\* C32: a status change writes a case status only from confirmed,
\* rescheduled, cancelled; postponed in any letter case between blanks is
\* stored as rescheduled, and an input that is none of the four words is
\* answered BadRequest with every case unchanged.
C32_StatusNormalized ==
  [][\A p \in Procs :
       /\ \A c \in DOMAIN cases :
            cases'[c].status # cases[c].status => cases'[c].status \in TargetStatuses
       /\ (pc[p] = "updateAppointmentStatus_validate" /\ pc'[p] # pc[p]) =>
            IF Meant(req[p].rawStatus) = "rejected"
              THEN Completes(p) /\ resp'[p].code = "BadRequest" /\ db' = db
              ELSE ~Completes(p) /\ req'[p].status = Meant(req[p].rawStatus)
       /\ Transitions(p) =>
            cases'[req[p].caseId].status = Meant(req[p].rawStatus)]_vars

\* " Postponed" with blanks around it was stored as rescheduled, and
\* completed was answered BadRequest
C32_Witness ==
  \E p, q \in Procs :
    /\ Done(p) /\ req[p].kind = "updateAppointmentStatus"
    /\ req[p].rawStatus # Spell("postponed")
    /\ Writes(req[p].rawStatus, "postponed")
    /\ resp[p].code = "OK"
    /\ cases[req[p].caseId].status = "rescheduled"
    /\ Done(q) /\ req[q].kind = "updateAppointmentStatus"
    /\ req[q].rawStatus = Spell("completed")
    /\ resp[q].code = "BadRequest"

\* C33: while no cancel runs, a session that is booked with a case stays in
\* the table, booked with that case, whatever a toggleSlot or deleteSlot
\* that read it while it was available does afterwards.
C33_BookingStays ==
  [][\A s \in DOMAIN sessions :
       IsBooked(s) =>
         /\ s \in DOMAIN sessions'
         /\ sessions'[s].status = "booked"
         /\ sessions'[s].caseId = sessions[s].caseId]_vars

\* the write of a client's cancel
CancelWrites(p) ==
  /\ pc[p] \in {"cancelBooking_tx", "cancelClientSession_update"}
  /\ pc'[p] # pc[p]

\* C34: when a client's cancel writes and the session is by then booked with
\* a case of another client, the write leaves that session and that case as
\* they are.
C34_CancelReleasesOwnOnly ==
  [][\A p \in Procs :
       LET s == req[p].session
           c == sessions[s].caseId
       IN
       (CancelWrites(p) /\ IsBooked(s) /\ cases[c].clientId # req[p].client) =>
         /\ sessions'[s] = sessions[s]
         /\ cases'[c] = cases[c]]_vars

\* the audit row the step has appended for session s
Audited(s, action) ==
  /\ Len(history') = Len(history) + 1
  /\ history'[Len(history')].sessionId = s
  /\ history'[Len(history')].action = action

\* C35: a note edit that has written a session's clinical fields ends with
\* its history row (editCaseNote in the step that writes, updateCaseNote in
\* the step after its update), and an edit answered NotFound or Forbidden
\* changes no table.
C35_NoteEditsAudited ==
  [][\A p \in Procs :
       /\ (pc[p] = "editCaseNote_tx" /\ pc'[p] # pc[p] /\ sessions' # sessions) =>
            Audited(req[p].session, "edit_case_note")
       /\ (pc[p] = "updateCaseNote_history" /\ pc'[p] # pc[p]) =>
            Audited(req[p].session, "COUNSELOR_NOTE_UPDATED")
       /\ (req[p].kind \in NoteKinds /\ Completes(p)
             /\ resp'[p].code \in {"NotFound", "Forbidden"}) =>
            db' = db]_vars

\* the client has a case and none of the client's cases holds a session:
\* what the client had booked has been cancelled
AllCancelled(client) ==
  /\ CasesOf(client) # {}
  /\ \A s \in DOMAIN sessions : sessions[s].caseId \notin CasesOf(client)

\* C36: with requests one after the other, a Book by a client whose booking
\* has been cancelled, for a session that is available, is answered neither
\* Conflict nor Internal.
C36_RebookSucceeds ==
  [][\A p \in Procs :
       (/\ req[p].kind \in BookKinds
        /\ Completes(p)
        /\ Reservable(req[p].session)
        /\ AllCancelled(req[p].client)) =>
         resp'[p].code \notin {"Conflict", "Internal"}]_vars

\* C37: when a reservation commits, the case has its queue token and the
\* session token written is that queue token followed by the number of
\* sessions the case held before this one, as three digits.
C37_SessionTokenCountsBefore ==
  [][\A p \in Procs :
       (pc[p] = "bookSession_txReserve" /\ pc'[p] = "bookSession_mail") =>
         LET s == req[p].session
             c == sessions'[s].caseId
         IN
         /\ HasToken(loc[p].token)
         /\ cases'[c].queueToken = loc[p].token
         /\ sessions'[s].sessionToken =
              (cases'[c].queueToken * VisitWidth) + SessionCount(c)]_vars

\* new.start < existing.end AND new.end > existing.start
HalfOpen(row, start, end) == start < row.timeEnd /\ end > row.timeStart

\* C38: for every session on an interval with start before end and every
\* new interval with start before end, the overlap query of createSlot and
\* updateSlot selects the session exactly when the two intervals meet in
\* the half-open sense.
C38_OverlapIsHalfOpen ==
  \A s \in DOMAIN sessions :
    \A start, end \in Instants :
      (start < end /\ sessions[s].timeStart < sessions[s].timeEnd) =>
        (Overlaps(sessions[s], start, end) <=> HalfOpen(sessions[s], start, end))

\* createSlot was answered Conflict for the first slot when the only
\* session in the way lies strictly inside the new hour
C38_Witness ==
  \E p \in Procs :
    /\ Done(p) /\ req[p].kind = "createSlot"
    /\ req[p].actor = 1 /\ req[p].time = FirstSlot
    /\ resp[p].code = "Conflict"
    /\ sessions[1].timeStart > req[p].time
    /\ sessions[1].timeEnd < req[p].time + MinutesPerHour

\* C39: no step deletes a session that history rows refer to, and in every
\* state every history row refers to a session in the table.
C39_HistoryKeepsSession ==
  /\ [](\A i \in 1..Len(history) : history[i].sessionId \in DOMAIN sessions)
  /\ [][\A i \in 1..Len(history) : history[i].sessionId \in DOMAIN sessions']_vars

\* deleteSlot or the cleanup has deleted a session, the cleanup was refused
\* for a session with history, and that session is still there
C39_Witness ==
  \E p \in Procs, s \in DOMAIN sessions :
    /\ Done(p) /\ req[p].kind = "cleanupExpiredSessions"
    /\ resp[p].code = "Internal"
    /\ \E i \in 1..Len(history) : history[i].sessionId = s
    /\ DOMAIN sessions # Sessions
====
